---------------------------- MODULE Spec2Model ----------------------------
(***************************************************************************)
(* Model of the stress-aware task scheduler of the Stress Management       *)
(* Coach front end: StressCoachApp with its listeners, parseTasksInput,    *)
(* parseTimeSlots, validateInputs, analyzeAndSchedule and clearAll, and    *)
(* AITaskSchedulerAgent.processScheduleLocally /                           *)
(* createOptimizedScheduleFixed with its scoring and summary helpers.      *)
(*                                                                         *)
(* Conventions.                                                            *)
(*  - The scores are JavaScript numbers (IEEE-754 doubles) in the source.  *)
(*    An integer n in a field counted in hundredths (deadline_urgency,     *)
(*    importance_score, the confidences) is the double nearest to n/100.   *)
(*    complexity_score, stress_compatibility and final_priority are        *)
(*    records [x, ulps]: the double that lies ulps units in the last       *)
(*    place above the double nearest to x/100, x/10000 and x/100000; so    *)
(*    0.5 + 0.2 - 0.2, which is 0.49999999999999994, is [x |-> 50,         *)
(*    ulps |-> -1]. Two such records are equal exactly when the doubles    *)
(*    are, and the doubles are ordered by x and then by ulps.              *)
(*  - NaN is written as the least integer there is, -2^31, where the       *)
(*    source holds minutes, a time of the day or an instant, and as x of   *)
(*    a double; the numbers of the inputs are all above it, and every      *)
(*    comparison and sum that may meet it asks for it first.               *)
(*  - Clock values and deadlines are whole hours, window start and end     *)
(*    times are minutes of the day on the wall clock.                      *)
(*  - A title, a priority, and every other text the code searches or       *)
(*    compares, is the sequence of its UTF-16 code units.                  *)
(*  - The id of a task, `task_${Date.now()}_${index}`, is the record of    *)
(*    the clock value and the index it is made of.                         *)
(*  - The date of a clock value is its UTC date, as toISOString gives it;  *)
(*    a window's time is local time of that date in the browser's zone.    *)
(*  - The results panel is the source of what each of its seven elements   *)
(*    holds: "none", "local" or "server".                                  *)
(*  - time_block holds a reference to an entry of availableSlots: the      *)
(*    index of the entry, 0 for null.                                      *)
(*  - A forEach loop is one action per callback invocation; k is the       *)
(*    index the loop will visit next (1-based).                            *)
(*  - An async function is one action for each stretch between two         *)
(*    awaits; pending holds the invocations that wait for fetch.           *)
(***************************************************************************)
EXTENDS Integers, Sequences, FiniteSets, TLC

VARIABLES
    taskLines,          \* the lines of the task text area
    slotLines,          \* the lines of the time-slot text area
    stressLevel,        \* StressCoachApp.stressLevel
    selectedMood,       \* StressCoachApp.selectedMood
    zone,               \* the time zone of the browser
    now,                \* the clock: the value new Date() returns, in hours
    pc,                 \* position of the running processScheduleLocally call
    call,               \* the arguments of the running or last call of
                        \* processScheduleLocally, and the clock value when
                        \* it began
    prevCall,           \* those of the call before it
    k,                  \* next index of the running forEach
    remainingTasks,     \* createOptimizedScheduleFixed: remainingTasks
    availableSlots,     \* createOptimizedScheduleFixed: availableSlots
    schedule,           \* createOptimizedScheduleFixed: schedule
    queue,              \* unscheduledHighPriority, as indexes into schedule
    result,             \* what the last finished call returned
    prevResult,         \* what the call before it returned
    calls,              \* how many requests have been made
    message,            \* the last message showMessage displayed
    pending,            \* invocations of analyzeAndSchedule awaiting fetch
    panel               \* the loading indicator and the results panel

vars == <<taskLines, slotLines, stressLevel, selectedMood, zone, now, pc,
          call, prevCall, k, remainingTasks, availableSlots, schedule, queue,
          result, prevResult, calls, message, pending, panel>>

-----------------------------------------------------------------------------
(* Bounds of the model *)

MaxTasks == 3
MaxSlots == 2
MaxCalls == 2
\* The bounds of the behaviours with short lists.
MaxTasksNarrow == 2
MaxSlotsNarrow == 2

\* NaN: no number of the inputs and no sum of them comes near it.
NaN == 0 - 2147483647 - 1

Durations == {10, 30}
NoDeadline == [kind |-> "none"]
DeadlineAt(h) == [kind |-> "at", at |-> h]
InvalidDeadline == [kind |-> "invalid"]
StressLevels == {5}
Instants == {0, 20}
\* The clock of a behaviour in which no time passes.
Still == {0}

\* The clock counts hours; its value 0 is 12:00 UTC of day 0, so that the
\* clock value 20 is 08:00 UTC of day 1.
HourOfInstant0 == 12

\* A day without a change of the clock, the day the clock goes from 02:00
\* to 03:00, and the day it goes from 02:00 back to 01:00.
PlainDay == [change |-> "none", at |-> 0, by |-> 0]
ForwardDay == [change |-> "forward", at |-> 120, by |-> 60]
BackDay == [change |-> "back", at |-> 120, by |-> 60]

\* The time zone of the browser: the day its clock changes on, if any.
NoChange == [change |-> "none", on |-> 0, at |-> 0, by |-> 0]
ForwardOn(date) == [change |-> "forward", on |-> date, at |-> 120, by |-> 60]
BackOn(date) == [change |-> "back", on |-> date, at |-> 120, by |-> 60]

\* A line "HH:MM-HH:MM label" of the time-slot text: start and end are the
\* minutes of the day the two times name, NaN for a text that is not a
\* time ("9:00", "25:00", "abc", ""); label is the text after the first
\* space. A line whose first word has no '-' is [kind |-> "bad"].
SlotLine(start, end) ==
    [kind |-> "range", start |-> start, end |-> end, label |-> ""]
BadLine == [kind |-> "bad"]

\* Lines of the time-slot text: "09:00-09:10" and "09:00-09:30".
SlotLineKinds == {SlotLine(540, 550), SlotLine(540, 570)}

\* The inputs of the behaviours with repeated calls: deadlines that a later
\* call sees nearer, and a line without '-', which parseTimeSlots drops.
DeadlinesTwice == {DeadlineAt(4), DeadlineAt(30)}
SlotLineKindsTwice == {SlotLine(540, 570), BadLine}

Null == [kind |-> "null"]

-----------------------------------------------------------------------------
(* Generic helpers *)

Max(a, b) == IF a >= b THEN a ELSE b
Min(a, b) == IF a <= b THEN a ELSE b

RECURSIVE SumSeq(_)
SumSeq(s) == IF s = <<>> THEN 0 ELSE Head(s) + SumSeq(Tail(s))

FilterIdx(s, Test(_)) ==
    LET F[i \in 0..Len(s)] ==
            IF i = 0 THEN <<>>
            ELSE IF Test(s[i]) THEN Append(F[i-1], i) ELSE F[i-1]
    IN F[Len(s)]

CountIf(s, Test(_)) == Cardinality({i \in 1..Len(s) : Test(s[i])})

RemoveAt(s, i) == SubSeq(s, 1, i-1) \o SubSeq(s, i+1, Len(s))

-----------------------------------------------------------------------------
(* Text: JavaScript strings as sequences of UTF-16 code units *)

\* The code units of the characters the texts of the model are written in.
CharCode ==
    [a |-> 97, b |-> 98, c |-> 99, d |-> 100, e |-> 101, f |-> 102,
     g |-> 103, h |-> 104, i |-> 105, j |-> 106, k |-> 107, l |-> 108,
     m |-> 109, n |-> 110, o |-> 111, p |-> 112, q |-> 113, r |-> 114,
     s |-> 115, t |-> 116, u |-> 117, v |-> 118, w |-> 119, x |-> 120,
     y |-> 121, z |-> 122,
     A |-> 65, B |-> 66, C |-> 67, D |-> 68, E |-> 69, F |-> 70, G |-> 71,
     H |-> 72, I |-> 73, J |-> 74, K |-> 75, L |-> 76, M |-> 77, N |-> 78,
     O |-> 79, P |-> 80, Q |-> 81, R |-> 82, S |-> 83, T |-> 84, U |-> 85,
     V |-> 86, W |-> 87, X |-> 88, Y |-> 89, Z |-> 90]
    @@ (" " :> 32) @@ ("(" :> 40) @@ (")" :> 41) @@ (":" :> 58)
    @@ ("_" :> 95)

\* The string of the given characters.
Utf16(chars) == [i \in 1..Len(chars) |-> CharCode[chars[i]]]

\* U+212A KELVIN SIGN, whose lower case is the letter k.
KelvinSign == 8490

\* The case mappings of the Unicode Character Database (version 17) that
\* String.prototype.toLowerCase applies. <<first, last, step, delta>>: the
\* code points first, first + step, ... up to last have the lower case
\* code point + delta. Every other code point but U+0130 is its own lower
\* case.
LowerCaseRanges ==
    {
      <<65, 90, 1, 32>>, <<192, 214, 1, 32>>, <<216, 222, 1, 32>>,
      <<256, 302, 2, 1>>, <<306, 310, 2, 1>>, <<313, 327, 2, 1>>,
      <<330, 374, 2, 1>>, <<376, 376, 1, 0 - 121>>, <<377, 381, 2, 1>>,
      <<385, 385, 1, 210>>, <<386, 388, 2, 1>>, <<390, 390, 1, 206>>,
      <<391, 391, 1, 1>>, <<393, 394, 1, 205>>, <<395, 395, 1, 1>>,
      <<398, 398, 1, 79>>, <<399, 399, 1, 202>>, <<400, 400, 1, 203>>,
      <<401, 401, 1, 1>>, <<403, 403, 1, 205>>, <<404, 404, 1, 207>>,
      <<406, 406, 1, 211>>, <<407, 407, 1, 209>>, <<408, 408, 1, 1>>,
      <<412, 412, 1, 211>>, <<413, 413, 1, 213>>, <<415, 415, 1, 214>>,
      <<416, 420, 2, 1>>, <<422, 422, 1, 218>>, <<423, 423, 1, 1>>,
      <<425, 425, 1, 218>>, <<428, 428, 1, 1>>, <<430, 430, 1, 218>>,
      <<431, 431, 1, 1>>, <<433, 434, 1, 217>>, <<435, 437, 2, 1>>,
      <<439, 439, 1, 219>>, <<440, 440, 1, 1>>, <<444, 444, 1, 1>>,
      <<452, 452, 1, 2>>, <<453, 453, 1, 1>>, <<455, 455, 1, 2>>,
      <<456, 456, 1, 1>>, <<458, 458, 1, 2>>, <<459, 475, 2, 1>>,
      <<478, 494, 2, 1>>, <<497, 497, 1, 2>>, <<498, 500, 2, 1>>,
      <<502, 502, 1, 0 - 97>>, <<503, 503, 1, 0 - 56>>, <<504, 542, 2, 1>>,
      <<544, 544, 1, 0 - 130>>, <<546, 562, 2, 1>>, <<570, 570, 1, 10795>>,
      <<571, 571, 1, 1>>, <<573, 573, 1, 0 - 163>>, <<574, 574, 1, 10792>>,
      <<577, 577, 1, 1>>, <<579, 579, 1, 0 - 195>>, <<580, 580, 1, 69>>,
      <<581, 581, 1, 71>>, <<582, 590, 2, 1>>, <<880, 882, 2, 1>>,
      <<886, 886, 1, 1>>, <<895, 895, 1, 116>>, <<902, 902, 1, 38>>,
      <<904, 906, 1, 37>>, <<908, 908, 1, 64>>, <<910, 911, 1, 63>>,
      <<913, 929, 1, 32>>, <<931, 939, 1, 32>>, <<975, 975, 1, 8>>,
      <<984, 1006, 2, 1>>, <<1012, 1012, 1, 0 - 60>>, <<1015, 1015, 1, 1>>,
      <<1017, 1017, 1, 0 - 7>>, <<1018, 1018, 1, 1>>,
      <<1021, 1023, 1, 0 - 130>>, <<1024, 1039, 1, 80>>,
      <<1040, 1071, 1, 32>>, <<1120, 1152, 2, 1>>, <<1162, 1214, 2, 1>>,
      <<1216, 1216, 1, 15>>, <<1217, 1229, 2, 1>>, <<1232, 1326, 2, 1>>,
      <<1329, 1366, 1, 48>>, <<4256, 4293, 1, 7264>>,
      <<4295, 4295, 1, 7264>>, <<4301, 4301, 1, 7264>>,
      <<5024, 5103, 1, 38864>>, <<5104, 5109, 1, 8>>, <<7305, 7305, 1, 1>>,
      <<7312, 7354, 1, 0 - 3008>>, <<7357, 7359, 1, 0 - 3008>>,
      <<7680, 7828, 2, 1>>, <<7838, 7838, 1, 0 - 7615>>,
      <<7840, 7934, 2, 1>>, <<7944, 7951, 1, 0 - 8>>,
      <<7960, 7965, 1, 0 - 8>>, <<7976, 7983, 1, 0 - 8>>,
      <<7992, 7999, 1, 0 - 8>>, <<8008, 8013, 1, 0 - 8>>,
      <<8025, 8031, 2, 0 - 8>>, <<8040, 8047, 1, 0 - 8>>,
      <<8072, 8079, 1, 0 - 8>>, <<8088, 8095, 1, 0 - 8>>,
      <<8104, 8111, 1, 0 - 8>>, <<8120, 8121, 1, 0 - 8>>,
      <<8122, 8123, 1, 0 - 74>>, <<8124, 8124, 1, 0 - 9>>,
      <<8136, 8139, 1, 0 - 86>>, <<8140, 8140, 1, 0 - 9>>,
      <<8152, 8153, 1, 0 - 8>>, <<8154, 8155, 1, 0 - 100>>,
      <<8168, 8169, 1, 0 - 8>>, <<8170, 8171, 1, 0 - 112>>,
      <<8172, 8172, 1, 0 - 7>>, <<8184, 8185, 1, 0 - 128>>,
      <<8186, 8187, 1, 0 - 126>>, <<8188, 8188, 1, 0 - 9>>,
      <<8486, 8486, 1, 0 - 7517>>, <<8490, 8490, 1, 0 - 8383>>,
      <<8491, 8491, 1, 0 - 8262>>, <<8498, 8498, 1, 28>>,
      <<8544, 8559, 1, 16>>, <<8579, 8579, 1, 1>>, <<9398, 9423, 1, 26>>,
      <<11264, 11311, 1, 48>>, <<11360, 11360, 1, 1>>,
      <<11362, 11362, 1, 0 - 10743>>, <<11363, 11363, 1, 0 - 3814>>,
      <<11364, 11364, 1, 0 - 10727>>, <<11367, 11371, 2, 1>>,
      <<11373, 11373, 1, 0 - 10780>>, <<11374, 11374, 1, 0 - 10749>>,
      <<11375, 11375, 1, 0 - 10783>>, <<11376, 11376, 1, 0 - 10782>>,
      <<11378, 11378, 1, 1>>, <<11381, 11381, 1, 1>>,
      <<11390, 11391, 1, 0 - 10815>>, <<11392, 11490, 2, 1>>,
      <<11499, 11501, 2, 1>>, <<11506, 11506, 1, 1>>,
      <<42560, 42604, 2, 1>>, <<42624, 42650, 2, 1>>,
      <<42786, 42798, 2, 1>>, <<42802, 42862, 2, 1>>,
      <<42873, 42875, 2, 1>>, <<42877, 42877, 1, 0 - 35332>>,
      <<42878, 42886, 2, 1>>, <<42891, 42891, 1, 1>>,
      <<42893, 42893, 1, 0 - 42280>>, <<42896, 42898, 2, 1>>,
      <<42902, 42920, 2, 1>>, <<42922, 42922, 1, 0 - 42308>>,
      <<42923, 42923, 1, 0 - 42319>>, <<42924, 42924, 1, 0 - 42315>>,
      <<42925, 42925, 1, 0 - 42305>>, <<42926, 42926, 1, 0 - 42308>>,
      <<42928, 42928, 1, 0 - 42258>>, <<42929, 42929, 1, 0 - 42282>>,
      <<42930, 42930, 1, 0 - 42261>>, <<42931, 42931, 1, 928>>,
      <<42932, 42946, 2, 1>>, <<42948, 42948, 1, 0 - 48>>,
      <<42949, 42949, 1, 0 - 42307>>, <<42950, 42950, 1, 0 - 35384>>,
      <<42951, 42953, 2, 1>>, <<42955, 42955, 1, 0 - 42343>>,
      <<42956, 42970, 2, 1>>, <<42972, 42972, 1, 0 - 42561>>,
      <<42997, 42997, 1, 1>>, <<65313, 65338, 1, 32>>,
      <<66560, 66599, 1, 40>>, <<66736, 66771, 1, 40>>,
      <<66928, 66964, 2, 39>>, <<66929, 66937, 2, 39>>,
      <<66941, 66953, 2, 39>>, <<66957, 66961, 2, 39>>,
      <<66965, 66965, 1, 39>>, <<68736, 68786, 1, 64>>,
      <<68944, 68965, 1, 32>>, <<71840, 71871, 1, 32>>,
      <<93760, 93791, 1, 32>>, <<93856, 93880, 1, 27>>,
      <<125184, 125217, 1, 34>>
    }

\* The code points with the property Case_Ignorable, as <<first, last>>.
CaseIgnorableRanges ==
    {
      <<39, 39>>, <<46, 46>>, <<58, 58>>, <<94, 94>>, <<96, 96>>,
      <<168, 168>>, <<173, 173>>, <<175, 175>>, <<180, 180>>, <<183, 184>>,
      <<688, 879>>, <<884, 885>>, <<890, 890>>, <<900, 901>>, <<903, 903>>,
      <<1155, 1161>>, <<1369, 1369>>, <<1375, 1375>>, <<1425, 1469>>,
      <<1471, 1471>>, <<1473, 1474>>, <<1476, 1477>>, <<1479, 1479>>,
      <<1524, 1524>>, <<1536, 1541>>, <<1552, 1562>>, <<1564, 1564>>,
      <<1600, 1600>>, <<1611, 1631>>, <<1648, 1648>>, <<1750, 1757>>,
      <<1759, 1768>>, <<1770, 1773>>, <<1807, 1807>>, <<1809, 1809>>,
      <<1840, 1866>>, <<1958, 1968>>, <<2027, 2037>>, <<2042, 2042>>,
      <<2045, 2045>>, <<2070, 2093>>, <<2137, 2139>>, <<2184, 2184>>,
      <<2192, 2193>>, <<2199, 2207>>, <<2249, 2306>>, <<2362, 2362>>,
      <<2364, 2364>>, <<2369, 2376>>, <<2381, 2381>>, <<2385, 2391>>,
      <<2402, 2403>>, <<2417, 2417>>, <<2433, 2433>>, <<2492, 2492>>,
      <<2497, 2500>>, <<2509, 2509>>, <<2530, 2531>>, <<2558, 2558>>,
      <<2561, 2562>>, <<2620, 2620>>, <<2625, 2626>>, <<2631, 2632>>,
      <<2635, 2637>>, <<2641, 2641>>, <<2672, 2673>>, <<2677, 2677>>,
      <<2689, 2690>>, <<2748, 2748>>, <<2753, 2757>>, <<2759, 2760>>,
      <<2765, 2765>>, <<2786, 2787>>, <<2810, 2815>>, <<2817, 2817>>,
      <<2876, 2876>>, <<2879, 2879>>, <<2881, 2884>>, <<2893, 2893>>,
      <<2901, 2902>>, <<2914, 2915>>, <<2946, 2946>>, <<3008, 3008>>,
      <<3021, 3021>>, <<3072, 3072>>, <<3076, 3076>>, <<3132, 3132>>,
      <<3134, 3136>>, <<3142, 3144>>, <<3146, 3149>>, <<3157, 3158>>,
      <<3170, 3171>>, <<3201, 3201>>, <<3260, 3260>>, <<3263, 3263>>,
      <<3270, 3270>>, <<3276, 3277>>, <<3298, 3299>>, <<3328, 3329>>,
      <<3387, 3388>>, <<3393, 3396>>, <<3405, 3405>>, <<3426, 3427>>,
      <<3457, 3457>>, <<3530, 3530>>, <<3538, 3540>>, <<3542, 3542>>,
      <<3633, 3633>>, <<3636, 3642>>, <<3654, 3662>>, <<3761, 3761>>,
      <<3764, 3772>>, <<3782, 3782>>, <<3784, 3790>>, <<3864, 3865>>,
      <<3893, 3893>>, <<3895, 3895>>, <<3897, 3897>>, <<3953, 3966>>,
      <<3968, 3972>>, <<3974, 3975>>, <<3981, 3991>>, <<3993, 4028>>,
      <<4038, 4038>>, <<4141, 4144>>, <<4146, 4151>>, <<4153, 4154>>,
      <<4157, 4158>>, <<4184, 4185>>, <<4190, 4192>>, <<4209, 4212>>,
      <<4226, 4226>>, <<4229, 4230>>, <<4237, 4237>>, <<4253, 4253>>,
      <<4348, 4348>>, <<4957, 4959>>, <<5906, 5908>>, <<5938, 5939>>,
      <<5970, 5971>>, <<6002, 6003>>, <<6068, 6069>>, <<6071, 6077>>,
      <<6086, 6086>>, <<6089, 6099>>, <<6103, 6103>>, <<6109, 6109>>,
      <<6155, 6159>>, <<6211, 6211>>, <<6277, 6278>>, <<6313, 6313>>,
      <<6432, 6434>>, <<6439, 6440>>, <<6450, 6450>>, <<6457, 6459>>,
      <<6679, 6680>>, <<6683, 6683>>, <<6742, 6742>>, <<6744, 6750>>,
      <<6752, 6752>>, <<6754, 6754>>, <<6757, 6764>>, <<6771, 6780>>,
      <<6783, 6783>>, <<6823, 6823>>, <<6832, 6877>>, <<6880, 6891>>,
      <<6912, 6915>>, <<6964, 6964>>, <<6966, 6970>>, <<6972, 6972>>,
      <<6978, 6978>>, <<7019, 7027>>, <<7040, 7041>>, <<7074, 7077>>,
      <<7080, 7081>>, <<7083, 7085>>, <<7142, 7142>>, <<7144, 7145>>,
      <<7149, 7149>>, <<7151, 7153>>, <<7212, 7219>>, <<7222, 7223>>,
      <<7288, 7293>>, <<7376, 7378>>, <<7380, 7392>>, <<7394, 7400>>,
      <<7405, 7405>>, <<7412, 7412>>, <<7416, 7417>>, <<7468, 7530>>,
      <<7544, 7544>>, <<7579, 7679>>, <<8125, 8125>>, <<8127, 8129>>,
      <<8141, 8143>>, <<8157, 8159>>, <<8173, 8175>>, <<8189, 8190>>,
      <<8203, 8207>>, <<8216, 8217>>, <<8228, 8228>>, <<8231, 8231>>,
      <<8234, 8238>>, <<8288, 8292>>, <<8294, 8303>>, <<8305, 8305>>,
      <<8319, 8319>>, <<8336, 8348>>, <<8400, 8432>>, <<11388, 11389>>,
      <<11503, 11505>>, <<11631, 11631>>, <<11647, 11647>>,
      <<11744, 11775>>, <<11823, 11823>>, <<12293, 12293>>,
      <<12330, 12333>>, <<12337, 12341>>, <<12347, 12347>>,
      <<12441, 12446>>, <<12540, 12542>>, <<40981, 40981>>,
      <<42232, 42237>>, <<42508, 42508>>, <<42607, 42610>>,
      <<42612, 42621>>, <<42623, 42623>>, <<42652, 42655>>,
      <<42736, 42737>>, <<42752, 42785>>, <<42864, 42864>>,
      <<42888, 42890>>, <<42993, 42996>>, <<43000, 43001>>,
      <<43010, 43010>>, <<43014, 43014>>, <<43019, 43019>>,
      <<43045, 43046>>, <<43052, 43052>>, <<43204, 43205>>,
      <<43232, 43249>>, <<43263, 43263>>, <<43302, 43309>>,
      <<43335, 43345>>, <<43392, 43394>>, <<43443, 43443>>,
      <<43446, 43449>>, <<43452, 43453>>, <<43471, 43471>>,
      <<43493, 43494>>, <<43561, 43566>>, <<43569, 43570>>,
      <<43573, 43574>>, <<43587, 43587>>, <<43596, 43596>>,
      <<43632, 43632>>, <<43644, 43644>>, <<43696, 43696>>,
      <<43698, 43700>>, <<43703, 43704>>, <<43710, 43711>>,
      <<43713, 43713>>, <<43741, 43741>>, <<43756, 43757>>,
      <<43763, 43764>>, <<43766, 43766>>, <<43867, 43871>>,
      <<43881, 43883>>, <<44005, 44005>>, <<44008, 44008>>,
      <<44013, 44013>>, <<64286, 64286>>, <<64434, 64450>>,
      <<65024, 65039>>, <<65043, 65043>>, <<65056, 65071>>,
      <<65106, 65106>>, <<65109, 65109>>, <<65279, 65279>>,
      <<65287, 65287>>, <<65294, 65294>>, <<65306, 65306>>,
      <<65342, 65342>>, <<65344, 65344>>, <<65392, 65392>>,
      <<65438, 65439>>, <<65507, 65507>>, <<65529, 65531>>,
      <<66045, 66045>>, <<66272, 66272>>, <<66422, 66426>>,
      <<67456, 67461>>, <<67463, 67504>>, <<67506, 67514>>,
      <<68097, 68099>>, <<68101, 68102>>, <<68108, 68111>>,
      <<68152, 68154>>, <<68159, 68159>>, <<68325, 68326>>,
      <<68900, 68903>>, <<68942, 68942>>, <<68969, 68973>>,
      <<68975, 68975>>, <<69291, 69292>>, <<69317, 69317>>,
      <<69370, 69375>>, <<69446, 69456>>, <<69506, 69509>>,
      <<69633, 69633>>, <<69688, 69702>>, <<69744, 69744>>,
      <<69747, 69748>>, <<69759, 69761>>, <<69811, 69814>>,
      <<69817, 69818>>, <<69821, 69821>>, <<69826, 69826>>,
      <<69837, 69837>>, <<69888, 69890>>, <<69927, 69931>>,
      <<69933, 69940>>, <<70003, 70003>>, <<70016, 70017>>,
      <<70070, 70078>>, <<70089, 70092>>, <<70095, 70095>>,
      <<70191, 70193>>, <<70196, 70196>>, <<70198, 70199>>,
      <<70206, 70206>>, <<70209, 70209>>, <<70367, 70367>>,
      <<70371, 70378>>, <<70400, 70401>>, <<70459, 70460>>,
      <<70464, 70464>>, <<70502, 70508>>, <<70512, 70516>>,
      <<70587, 70592>>, <<70606, 70606>>, <<70608, 70608>>,
      <<70610, 70610>>, <<70625, 70626>>, <<70712, 70719>>,
      <<70722, 70724>>, <<70726, 70726>>, <<70750, 70750>>,
      <<70835, 70840>>, <<70842, 70842>>, <<70847, 70848>>,
      <<70850, 70851>>, <<71090, 71093>>, <<71100, 71101>>,
      <<71103, 71104>>, <<71132, 71133>>, <<71219, 71226>>,
      <<71229, 71229>>, <<71231, 71232>>, <<71339, 71339>>,
      <<71341, 71341>>, <<71344, 71349>>, <<71351, 71351>>,
      <<71453, 71453>>, <<71455, 71455>>, <<71458, 71461>>,
      <<71463, 71467>>, <<71727, 71735>>, <<71737, 71738>>,
      <<71995, 71996>>, <<71998, 71998>>, <<72003, 72003>>,
      <<72148, 72151>>, <<72154, 72155>>, <<72160, 72160>>,
      <<72193, 72202>>, <<72243, 72248>>, <<72251, 72254>>,
      <<72263, 72263>>, <<72273, 72278>>, <<72281, 72283>>,
      <<72330, 72342>>, <<72344, 72345>>, <<72544, 72544>>,
      <<72546, 72548>>, <<72550, 72550>>, <<72752, 72758>>,
      <<72760, 72765>>, <<72767, 72767>>, <<72850, 72871>>,
      <<72874, 72880>>, <<72882, 72883>>, <<72885, 72886>>,
      <<73009, 73014>>, <<73018, 73018>>, <<73020, 73021>>,
      <<73023, 73029>>, <<73031, 73031>>, <<73104, 73105>>,
      <<73109, 73109>>, <<73111, 73111>>, <<73177, 73177>>,
      <<73459, 73460>>, <<73472, 73473>>, <<73526, 73530>>,
      <<73536, 73536>>, <<73538, 73538>>, <<73562, 73562>>,
      <<78896, 78912>>, <<78919, 78933>>, <<90398, 90409>>,
      <<90413, 90415>>, <<92912, 92916>>, <<92976, 92982>>,
      <<92992, 92995>>, <<93504, 93506>>, <<93547, 93548>>,
      <<94031, 94031>>, <<94095, 94111>>, <<94176, 94177>>,
      <<94179, 94180>>, <<94194, 94195>>, <<110576, 110579>>,
      <<110581, 110587>>, <<110589, 110590>>, <<113821, 113822>>,
      <<113824, 113827>>, <<118528, 118573>>, <<118576, 118598>>,
      <<119143, 119145>>, <<119155, 119170>>, <<119173, 119179>>,
      <<119210, 119213>>, <<119362, 119364>>, <<121344, 121398>>,
      <<121403, 121452>>, <<121461, 121461>>, <<121476, 121476>>,
      <<121499, 121503>>, <<121505, 121519>>, <<122880, 122886>>,
      <<122888, 122904>>, <<122907, 122913>>, <<122915, 122916>>,
      <<122918, 122922>>, <<122928, 122989>>, <<123023, 123023>>,
      <<123184, 123197>>, <<123566, 123566>>, <<123628, 123631>>,
      <<124139, 124143>>, <<124398, 124399>>, <<124643, 124643>>,
      <<124646, 124646>>, <<124654, 124655>>, <<124661, 124661>>,
      <<124671, 124671>>, <<125136, 125142>>, <<125252, 125259>>,
      <<127995, 127999>>, <<917505, 917505>>, <<917536, 917631>>,
      <<917760, 917999>>
    }

\* The code points with the property Cased and without the property
\* Case_Ignorable, as <<first, last>>.
CasedRanges ==
    {
      <<65, 90>>, <<97, 122>>, <<170, 170>>, <<181, 181>>, <<186, 186>>,
      <<192, 214>>, <<216, 246>>, <<248, 442>>, <<444, 447>>, <<452, 659>>,
      <<662, 687>>, <<880, 883>>, <<886, 887>>, <<891, 893>>, <<895, 895>>,
      <<902, 902>>, <<904, 906>>, <<908, 908>>, <<910, 929>>,
      <<931, 1013>>, <<1015, 1153>>, <<1162, 1327>>, <<1329, 1366>>,
      <<1376, 1416>>, <<4256, 4293>>, <<4295, 4295>>, <<4301, 4301>>,
      <<4304, 4346>>, <<4349, 4351>>, <<5024, 5109>>, <<5112, 5117>>,
      <<7296, 7306>>, <<7312, 7354>>, <<7357, 7359>>, <<7424, 7467>>,
      <<7531, 7543>>, <<7545, 7578>>, <<7680, 7957>>, <<7960, 7965>>,
      <<7968, 8005>>, <<8008, 8013>>, <<8016, 8023>>, <<8025, 8025>>,
      <<8027, 8027>>, <<8029, 8029>>, <<8031, 8061>>, <<8064, 8116>>,
      <<8118, 8124>>, <<8126, 8126>>, <<8130, 8132>>, <<8134, 8140>>,
      <<8144, 8147>>, <<8150, 8155>>, <<8160, 8172>>, <<8178, 8180>>,
      <<8182, 8188>>, <<8450, 8450>>, <<8455, 8455>>, <<8458, 8467>>,
      <<8469, 8469>>, <<8473, 8477>>, <<8484, 8484>>, <<8486, 8486>>,
      <<8488, 8488>>, <<8490, 8493>>, <<8495, 8500>>, <<8505, 8505>>,
      <<8508, 8511>>, <<8517, 8521>>, <<8526, 8526>>, <<8544, 8575>>,
      <<8579, 8580>>, <<9398, 9449>>, <<11264, 11387>>, <<11390, 11492>>,
      <<11499, 11502>>, <<11506, 11507>>, <<11520, 11557>>,
      <<11559, 11559>>, <<11565, 11565>>, <<42560, 42605>>,
      <<42624, 42651>>, <<42786, 42863>>, <<42865, 42887>>,
      <<42891, 42894>>, <<42896, 42972>>, <<42997, 42998>>,
      <<43002, 43002>>, <<43824, 43866>>, <<43872, 43880>>,
      <<43888, 43967>>, <<64256, 64262>>, <<64275, 64279>>,
      <<65313, 65338>>, <<65345, 65370>>, <<66560, 66639>>,
      <<66736, 66771>>, <<66776, 66811>>, <<66928, 66938>>,
      <<66940, 66954>>, <<66956, 66962>>, <<66964, 66965>>,
      <<66967, 66977>>, <<66979, 66993>>, <<66995, 67001>>,
      <<67003, 67004>>, <<68736, 68786>>, <<68800, 68850>>,
      <<68944, 68965>>, <<68976, 68997>>, <<71840, 71903>>,
      <<93760, 93823>>, <<93856, 93880>>, <<93883, 93907>>,
      <<119808, 119892>>, <<119894, 119964>>, <<119966, 119967>>,
      <<119970, 119970>>, <<119973, 119974>>, <<119977, 119980>>,
      <<119982, 119993>>, <<119995, 119995>>, <<119997, 120003>>,
      <<120005, 120069>>, <<120071, 120074>>, <<120077, 120084>>,
      <<120086, 120092>>, <<120094, 120121>>, <<120123, 120126>>,
      <<120128, 120132>>, <<120134, 120134>>, <<120138, 120144>>,
      <<120146, 120485>>, <<120488, 120512>>, <<120514, 120538>>,
      <<120540, 120570>>, <<120572, 120596>>, <<120598, 120628>>,
      <<120630, 120654>>, <<120656, 120686>>, <<120688, 120712>>,
      <<120714, 120744>>, <<120746, 120770>>, <<120772, 120779>>,
      <<122624, 122633>>, <<122635, 122654>>, <<122661, 122666>>,
      <<125184, 125251>>, <<127280, 127305>>, <<127312, 127337>>,
      <<127344, 127369>>
    }

\* A code point lies in one of the ranges <<first, last>>.
InRanges(ranges, cp) == \E r \in ranges : r[1] <= cp /\ cp <= r[2]

IsCaseIgnorable(cp) == InRanges(CaseIgnorableRanges, cp)
\* Asked of code points that are not case-ignorable.
IsCased(cp) == InRanges(CasedRanges, cp)

IsLeadSurrogate(unit) == 55296 <= unit /\ unit <= 56319
IsTrailSurrogate(unit) == 56320 <= unit /\ unit <= 57343

\* The code points of a string: a lead surrogate with the trail surrogate
\* that follows it is one code point, every other code unit is one.
RECURSIVE CodePoints(_)
CodePoints(text) ==
    IF text = <<>> THEN <<>>
    ELSE IF Len(text) >= 2 /\ IsLeadSurrogate(text[1])
               /\ IsTrailSurrogate(text[2])
         THEN <<65536 + (text[1] - 55296) * 1024 + (text[2] - 56320)>>
                \o CodePoints(SubSeq(text, 3, Len(text)))
         ELSE <<text[1]>> \o CodePoints(Tail(text))

\* The code units of a sequence of code points.
RECURSIVE CodeUnits(_)
CodeUnits(cps) ==
    IF cps = <<>> THEN <<>>
    ELSE (IF Head(cps) < 65536 THEN <<Head(cps)>>
          ELSE <<55296 + ((Head(cps) - 65536) \div 1024),
                 56320 + ((Head(cps) - 65536) % 1024)>>)
            \o CodeUnits(Tail(cps))

\* The code point of cps nearest to position i, before it (step -1) or
\* after it (step 1), that is not case-ignorable is cased.
RECURSIVE CasedNextTo(_, _, _)
CasedNextTo(cps, i, step) ==
    IF i + step < 1 \/ i + step > Len(cps) THEN FALSE
    ELSE IF IsCaseIgnorable(cps[i + step]) THEN CasedNextTo(cps, i + step, step)
    ELSE IsCased(cps[i + step])

\* The context Final_Sigma: the nearest code point before position i that
\* is not case-ignorable is cased, and the nearest one after it is not.
IsFinalSigma(cps, i) == CasedNextTo(cps, i, -1) /\ ~CasedNextTo(cps, i, 1)

\* The lower case of a code point that one code point stands for: the
\* code point displaced by the delta of its range, or itself.
MappedBy(found, cp) ==
    IF found = {} THEN cp ELSE cp + (CHOOSE r \in found : TRUE)[4]

SimpleLowerCase(cp) ==
    MappedBy({r \in LowerCaseRanges :
                r[1] <= cp /\ cp <= r[2] /\ (cp - r[1]) % r[3] = 0}, cp)

\* The lower case of the code point at position i: U+0130 becomes i and
\* U+0307, U+03A3 becomes U+03C2 in the context Final_Sigma and U+03C3
\* elsewhere. Below U+0080 the only mappings are those of A to Z.
LowerCaseOf(cps, i) ==
    IF cps[i] < 128
    THEN (IF 65 <= cps[i] /\ cps[i] <= 90 THEN <<cps[i] + 32>> ELSE <<cps[i]>>)
    ELSE IF cps[i] = 304 THEN <<105, 775>>
    ELSE IF cps[i] = 931 /\ IsFinalSigma(cps, i) THEN <<962>>
    ELSE <<SimpleLowerCase(cps[i])>>

\* The code units of the lower case of the first n code points.
RECURSIVE LowerCaseUpTo(_, _)
LowerCaseUpTo(cps, n) ==
    IF n = 0 THEN <<>>
    ELSE LowerCaseUpTo(cps, n - 1) \o CodeUnits(LowerCaseOf(cps, n))

LowerCaseAll(cps) == LowerCaseUpTo(cps, Len(cps))

\* String.prototype.toLowerCase
toLowerCase(text) == LowerCaseAll(CodePoints(text))

\* String.prototype.includes: word occurs in text as a run of code units.
includes(text, word) ==
    \E i \in 0..(Len(text) - Len(word)) : SubSeq(text, i + 1, i + Len(word)) = word

IncludesSome(lower, words) == \E word \in words : includes(lower, word)

\* words.some(word => title.toLowerCase().includes(word))
HasWord(title, words) == IncludesSome(toLowerCase(title), words)

\* The titles of the tasks: "report", "review analysis", "PREVIEW" and
\* "QUIC\u212A fix", whose fifth character is the Kelvin sign.
Report == Utf16(<<"r", "e", "p", "o", "r", "t">>)
ReviewAnalysis ==
    Utf16(<<"r", "e", "v", "i", "e", "w", " ", "a", "n", "a", "l", "y", "s", "i", "s">>)
Preview == Utf16(<<"P", "R", "E", "V", "I", "E", "W">>)
QuickFix ==
    Utf16(<<"Q", "U", "I", "C">>) \o <<KelvinSign>> \o Utf16(<<" ", "f", "i", "x">>)
Titles == {Report}

\* The priorities the priority map knows, and 'HIGH' as a user may type it.
High == Utf16(<<"h", "i", "g", "h">>)
Medium == Utf16(<<"m", "e", "d", "i", "u", "m">>)
Low == Utf16(<<"l", "o", "w">>)
HighInCapitals == Utf16(<<"H", "I", "G", "H">>)
\* A name every object inherits from Object.prototype.
Constructor == Utf16(<<"c", "o", "n", "s", "t", "r", "u", "c", "t", "o", "r">>)

\* The decimal digits of a natural number, as `${n}` writes it.
RECURSIVE Decimal(_)
Decimal(n) ==
    IF n < 10 THEN <<48 + n>> ELSE Decimal(n \div 10) \o <<48 + (n % 10)>>

-----------------------------------------------------------------------------
(* Doubles *)

Double(x, ulps) == [x |-> x, ulps |-> ulps]
NotANumber == Double(NaN, 0)
IsNaN(d) == d.x = NaN

\* a < b on doubles; false when either is NaN.
Less(a, b) ==
    /\ ~IsNaN(a) /\ ~IsNaN(b)
    /\ \/ a.x < b.x
       \/ a.x = b.x /\ a.ulps < b.ulps

\* score + 0.2 and score - 0.2 of assessComplexity: 0.5 + 0.2 is the double
\* nearest to 0.7, 0.5 - 0.2 the double nearest to 0.3, and (0.5 + 0.2) - 0.2
\* the double just below 0.5.
Plus02(score) == Double(score.x + 20, 0)
Minus02(score) ==
    IF score = Double(70, 0) THEN Double(50, 0 - 1) ELSE Double(score.x - 20, 0)

\* The complexities and stress levels (of 0 to 10) for which
\* 1.0 - (complexity * stressLevel / 10 * 0.7) is rounded to the double above
\* the one nearest to the exact difference, as <<complexity, stressLevel>>;
\* for all others it is the nearest one.
CompatRoundedUp ==
    { <<Double(50, 0 - 1), 5>>, <<Double(70, 0), 6>>, <<Double(30, 0), 8>>,
      <<Double(70, 0), 8>>, <<Double(50, 0 - 1), 10>> }

\* The urgencies, importances and stress compatibilities (of the stress
\* levels 0 to 10) for which urgency * 0.5 + importance * 0.3 +
\* compatibility * 0.2 is rounded to the double above, or below, the one
\* nearest to the exact sum, as <<urgency, importance, compatibility.x,
\* compatibility.ulps>>.
FinalRoundedUp ==
    {
      <<20, 30, 5100, 0>>, <<20, 60, 5590, 0>>, <<50, 60, 5590, 0>>,
      <<20, 100, 6080, 1>>, <<20, 60, 6080, 1>>, <<20, 30, 6080, 1>>,
      <<30, 30, 6080, 1>>, <<50, 100, 6080, 1>>, <<70, 60, 6080, 1>>,
      <<90, 30, 6080, 1>>, <<100, 100, 6080, 1>>, <<20, 60, 6500, 0>>,
      <<20, 60, 6500, 1>>, <<20, 30, 6500, 1>>, <<20, 100, 6570, 0>>,
      <<20, 60, 6570, 0>>, <<90, 60, 6570, 0>>, <<20, 60, 6850, 0>>,
      <<20, 30, 7060, 1>>, <<20, 60, 7200, 0>>, <<50, 100, 7200, 0>>,
      <<100, 100, 7200, 0>>, <<20, 60, 7550, 0>>, <<50, 100, 7550, 0>>,
      <<90, 30, 7550, 0>>, <<100, 100, 7550, 0>>, <<20, 60, 7900, 0>>,
      <<20, 30, 7900, 0>>, <<50, 100, 7900, 0>>, <<50, 60, 7900, 0>>,
      <<70, 60, 7900, 0>>, <<90, 30, 7900, 0>>, <<100, 100, 7900, 0>>,
      <<20, 100, 8040, 0>>, <<20, 60, 8040, 0>>, <<30, 30, 8040, 0>>,
      <<50, 100, 8040, 0>>, <<70, 60, 8040, 0>>, <<90, 60, 8040, 0>>,
      <<90, 30, 8040, 0>>, <<100, 100, 8040, 0>>, <<20, 60, 8110, 0>>,
      <<50, 60, 8110, 0>>, <<20, 100, 8250, 0>>, <<20, 60, 8250, 0>>,
      <<50, 100, 8250, 0>>, <<70, 60, 8250, 0>>, <<90, 30, 8250, 0>>,
      <<100, 100, 8250, 0>>, <<20, 100, 8250, 1>>, <<20, 60, 8250, 1>>,
      <<20, 30, 8250, 1>>, <<50, 100, 8250, 1>>, <<70, 60, 8250, 1>>,
      <<90, 30, 8250, 1>>, <<100, 100, 8250, 1>>, <<20, 30, 8320, 1>>,
      <<20, 30, 8530, 0>>, <<20, 100, 8600, 0>>, <<20, 60, 8600, 0>>,
      <<30, 30, 8600, 0>>, <<50, 100, 8600, 0>>, <<70, 60, 8600, 0>>,
      <<90, 30, 8600, 0>>, <<100, 100, 8600, 0>>, <<20, 60, 8740, 0>>,
      <<50, 100, 8740, 0>>, <<70, 60, 8740, 0>>, <<90, 100, 8740, 0>>,
      <<90, 30, 8740, 0>>, <<100, 100, 8740, 0>>, <<20, 100, 8950, 0>>,
      <<20, 60, 8950, 0>>, <<30, 30, 8950, 0>>, <<50, 100, 8950, 0>>,
      <<70, 60, 8950, 0>>, <<90, 30, 8950, 0>>, <<100, 100, 8950, 0>>,
      <<20, 60, 9020, 0>>, <<20, 60, 9160, 0>>, <<20, 30, 9160, 0>>,
      <<50, 100, 9160, 0>>, <<70, 60, 9160, 0>>, <<90, 30, 9160, 0>>,
      <<100, 100, 9160, 0>>, <<20, 100, 9300, 0>>, <<20, 60, 9300, 0>>,
      <<30, 30, 9300, 0>>, <<50, 100, 9300, 0>>, <<70, 60, 9300, 0>>,
      <<90, 60, 9300, 0>>, <<90, 30, 9300, 0>>, <<100, 100, 9300, 0>>,
      <<20, 60, 9370, 0>>, <<20, 100, 9510, 0>>, <<20, 60, 9510, 0>>,
      <<50, 100, 9510, 0>>, <<70, 60, 9510, 0>>, <<90, 30, 9510, 0>>,
      <<100, 100, 9510, 0>>, <<20, 60, 9650, 0>>, <<50, 100, 9650, 0>>,
      <<70, 60, 9650, 0>>, <<90, 100, 9650, 0>>, <<90, 30, 9650, 0>>,
      <<100, 100, 9650, 0>>, <<20, 30, 9790, 0>>, <<20, 100, 10000, 0>>,
      <<20, 60, 10000, 0>>, <<90, 60, 10000, 0>>
    }

FinalRoundedDown ==
    {
      <<30, 100, 5100, 0>>, <<30, 60, 5100, 0>>, <<30, 30, 5100, 0>>,
      <<50, 30, 5100, 0>>, <<70, 100, 5100, 0>>, <<70, 30, 5100, 0>>,
      <<100, 60, 5100, 0>>, <<30, 60, 5590, 0>>, <<70, 100, 5590, 0>>,
      <<30, 60, 6500, 0>>, <<70, 100, 6500, 0>>, <<100, 60, 6500, 0>>,
      <<30, 60, 6500, 1>>, <<70, 100, 6500, 1>>, <<100, 60, 6500, 1>>,
      <<30, 100, 6570, 0>>, <<70, 100, 6570, 0>>, <<70, 30, 6570, 0>>,
      <<100, 60, 6570, 0>>, <<30, 60, 6850, 0>>, <<70, 100, 6850, 0>>,
      <<30, 60, 7060, 1>>, <<50, 30, 7060, 1>>, <<70, 100, 7060, 1>>,
      <<70, 30, 7060, 1>>, <<100, 60, 7060, 1>>, <<20, 30, 7200, 0>>,
      <<70, 100, 7200, 0>>, <<70, 100, 7550, 0>>, <<70, 100, 7900, 0>>,
      <<30, 60, 8110, 0>>, <<70, 100, 8110, 0>>, <<30, 60, 8320, 1>>,
      <<70, 100, 8320, 1>>, <<70, 30, 8320, 1>>, <<100, 60, 8320, 1>>,
      <<30, 100, 8530, 0>>, <<30, 60, 8530, 0>>, <<30, 30, 8530, 0>>,
      <<50, 30, 8530, 0>>, <<70, 100, 8530, 0>>, <<70, 30, 8530, 0>>,
      <<100, 60, 8530, 0>>, <<100, 30, 8530, 0>>, <<30, 60, 8740, 0>>,
      <<50, 30, 8740, 0>>, <<100, 30, 8740, 0>>, <<70, 100, 9020, 0>>,
      <<100, 60, 9020, 0>>, <<70, 100, 9160, 0>>, <<70, 100, 9370, 0>>,
      <<50, 60, 9580, 0>>, <<70, 100, 9580, 0>>, <<70, 30, 9580, 0>>,
      <<100, 60, 9580, 0>>, <<30, 60, 9650, 0>>, <<50, 30, 9650, 0>>,
      <<100, 30, 9650, 0>>, <<30, 100, 9790, 0>>, <<30, 60, 9790, 0>>,
      <<30, 30, 9790, 0>>, <<50, 30, 9790, 0>>, <<70, 100, 9790, 0>>,
      <<70, 30, 9790, 0>>, <<100, 60, 9790, 0>>, <<100, 30, 9790, 0>>,
      <<30, 100, 10000, 0>>, <<70, 100, 10000, 0>>, <<70, 30, 10000, 0>>,
      <<100, 60, 10000, 0>>
    }

-----------------------------------------------------------------------------
(* Scoring: AITaskSchedulerAgent's per-task analysis *)

\* Variant: a deadline already past counts as no deadline.
UrgencyPastAsNone(task, t) ==
    IF task.deadline.kind = "none" THEN 20
    ELSE IF task.deadline.kind = "invalid" THEN 30
    ELSE LET hoursUntil == task.deadline.at - t IN
         IF hoursUntil < 0 THEN 20
         ELSE IF hoursUntil <= 6 THEN 100
         ELSE IF hoursUntil <= 24 THEN 90
         ELSE IF hoursUntil <= 48 THEN 70
         ELSE IF hoursUntil <= 168 THEN 50
         ELSE 30

\* t is the value the call's new Date() returns.
calculateDeadlineUrgency(task, t) ==
    IF task.deadline.kind = "none" THEN 20
    ELSE IF task.deadline.kind = "invalid" THEN 30
         \* an Invalid Date makes hoursUntil NaN: every comparison is false
         \* and nothing is thrown
    ELSE LET hoursUntil == task.deadline.at - t IN
         IF hoursUntil <= 6 THEN 100
         ELSE IF hoursUntil <= 24 THEN 90
         ELSE IF hoursUntil <= 48 THEN 70
         ELSE IF hoursUntil <= 168 THEN 50
         ELSE 30

\* The names priorityMap inherits from Object.prototype ('constructor',
\* '__proto__', 'toString' and so on): priorityMap[name] is a function or
\* an object, which is truthy.
ObjectPrototypeNames ==
    {
      Constructor,
      Utf16(<<"_", "_", "p", "r", "o", "t", "o", "_", "_">>),
      Utf16(<<"t", "o", "S", "t", "r", "i", "n", "g">>),
      Utf16(<<"t", "o", "L", "o", "c", "a", "l", "e", "S", "t", "r", "i",
              "n", "g">>),
      Utf16(<<"v", "a", "l", "u", "e", "O", "f">>),
      Utf16(<<"h", "a", "s", "O", "w", "n", "P", "r", "o", "p", "e", "r",
              "t", "y">>),
      Utf16(<<"i", "s", "P", "r", "o", "t", "o", "t", "y", "p", "e", "O",
              "f">>),
      Utf16(<<"p", "r", "o", "p", "e", "r", "t", "y", "I", "s", "E", "n",
              "u", "m", "e", "r", "a", "b", "l", "e">>),
      Utf16(<<"_", "_", "d", "e", "f", "i", "n", "e", "G", "e", "t", "t",
              "e", "r", "_", "_">>),
      Utf16(<<"_", "_", "d", "e", "f", "i", "n", "e", "S", "e", "t", "t",
              "e", "r", "_", "_">>),
      Utf16(<<"_", "_", "l", "o", "o", "k", "u", "p", "G", "e", "t", "t",
              "e", "r", "_", "_">>),
      Utf16(<<"_", "_", "l", "o", "o", "k", "u", "p", "S", "e", "t", "t",
              "e", "r", "_", "_">>)
    }

\* What importance_score holds for such a name: the inherited member, which
\* is not a number.
Inherited == 0 - 2

\* priorityMap[priority] || 0.6
getImportanceScore(priority) ==
    IF priority = High THEN 100
    ELSE IF priority = Medium THEN 60
    ELSE IF priority = Low THEN 30
    ELSE IF priority \in ObjectPrototypeNames THEN Inherited
    ELSE 60

complexWords ==
    { Utf16(<<"a", "n", "a", "l", "y", "s", "i", "s">>),
      Utf16(<<"r", "e", "s", "e", "a", "r", "c", "h">>),
      Utf16(<<"d", "e", "v", "e", "l", "o", "p", "m", "e", "n", "t">>),
      Utf16(<<"c", "o", "m", "p", "l", "e", "x">>),
      Utf16(<<"d", "e", "t", "a", "i", "l", "e", "d">>) }
simpleWords ==
    { Utf16(<<"u", "p", "d", "a", "t", "e">>),
      Utf16(<<"c", "h", "e", "c", "k">>),
      Utf16(<<"r", "e", "v", "i", "e", "w">>),
      Utf16(<<"s", "i", "m", "p", "l", "e">>),
      Utf16(<<"q", "u", "i", "c", "k">>) }

\* The score is 0.5, 0.7, 0.3 or 0.49999999999999994, which the clamp to
\* [0.1, 1.0] leaves as it is.
assessComplexity(title) ==
    LET s0 == Double(50, 0)
        s1 == IF HasWord(title, complexWords) THEN Plus02(s0) ELSE s0
        s2 == IF HasWord(title, simpleWords) THEN Minus02(s1) ELSE s1
    IN IF Less(s2, Double(10, 0)) THEN Double(10, 0)
       ELSE IF Less(Double(100, 0), s2) THEN Double(100, 0)
       ELSE s2

deepWorkWords ==
    { Utf16(<<"c", "o", "d", "e">>),
      Utf16(<<"d", "e", "v", "e", "l", "o", "p">>),
      Utf16(<<"a", "n", "a", "l", "y", "s", "i", "s">>) }
creativeWords ==
    { Utf16(<<"d", "e", "s", "i", "g", "n">>),
      Utf16(<<"c", "r", "e", "a", "t", "e">>),
      Utf16(<<"b", "r", "a", "i", "n", "s", "t", "o", "r", "m">>) }
administrativeWords ==
    { Utf16(<<"e", "m", "a", "i", "l">>),
      Utf16(<<"m", "e", "e", "t", "i", "n", "g">>),
      Utf16(<<"p", "l", "a", "n">>) }

classifyTaskType(title) ==
    IF HasWord(title, deepWorkWords) THEN "deep_work"
    ELSE IF HasWord(title, creativeWords) THEN "creative"
    ELSE IF HasWord(title, administrativeWords) THEN "administrative"
    ELSE "routine"

\* Math.max(0.1, 1.0 - (complexity * stressLevel / 10 * 0.7)), for the
\* stress levels 0 to 10.
calculateStressCompatibility(task, level) ==
    LET complexity == assessComplexity(task.title)
        x == 10000 - complexity.x * level * 7
    IN IF x < 1000 THEN Double(1000, 0)
       ELSE Double(x, IF <<complexity, level>> \in CompatRoundedUp THEN 1 ELSE 0)

\* urgency * 0.5 + importance * 0.3 + compatibility * 0.2; a sum with an
\* importance that is not a number is NaN.
WeightedSum(urgency, importance, compatibility) ==
    IF importance = Inherited THEN NotANumber
    ELSE LET key == <<urgency, importance, compatibility.x, compatibility.ulps>>
         IN Double(urgency * 500 + importance * 300 + compatibility.x * 2,
                   IF key \in FinalRoundedUp THEN 1
                   ELSE IF key \in FinalRoundedDown THEN 0 - 1
                   ELSE 0)

\* calculateFinalPriority reads the clock itself, through
\* calculateDeadlineUrgency: t is the value that read returns.
calculateFinalPriority(task, level, t) ==
    WeightedSum(calculateDeadlineUrgency(task, t),
                getImportanceScore(task.priority),
                calculateStressCompatibility(task, level))

\* processScheduleLocally: tasks.map(task => ({...task, analysis: {...}})).
\* The callback reads the clock twice: t1 is what it reads for
\* deadline_urgency, t2 what it reads for final_priority.
AnalyzeTask(task, level, t1, t2) ==
    LET analysis ==
            [deadline_urgency |-> calculateDeadlineUrgency(task, t1),
             importance_score |-> getImportanceScore(task.priority),
             complexity_score |-> assessComplexity(task.title),
             task_type |-> classifyTaskType(task.title),
             ai_confidence |-> 85,
             stress_compatibility |-> calculateStressCompatibility(task, level),
             final_priority |-> calculateFinalPriority(task, level, t2)]
    IN [field \in DOMAIN task \cup {"analysis"} |->
          IF field = "analysis" THEN analysis ELSE task[field]]

\* Variant: the comparator's operands exchanged (a - b): ascending.
ComparefnAscending(a, b) ==
    IF Less(b.analysis.final_priority, a.analysis.final_priority) THEN 1
    ELSE IF Less(a.analysis.final_priority, b.analysis.final_priority) THEN 0 - 1
    ELSE 0

\* The sign of (a, b) => b.analysis.final_priority - a.analysis.final_priority;
\* a difference that is NaN counts as 0 in Array.prototype.sort.
Comparefn(a, b) ==
    IF Less(a.analysis.final_priority, b.analysis.final_priority) THEN 1
    ELSE IF Less(b.analysis.final_priority, a.analysis.final_priority) THEN 0 - 1
    ELSE 0

\* The binary insertion puts the pivot before the element it is compared
\* with when the comparator is negative.
GoesBefore(order) == order < 0

\* Array.prototype.sort as V8 (Node, Chrome) runs it on an array of fewer
\* than 64 elements: the run the array starts with is found (and reversed
\* when the comparator finds its second element before its first), then
\* every later element is inserted into it by binary search. For final
\* priorities that are numbers this is the descending stable order, which
\* every conforming sort gives; with a NaN among them the comparator is not
\* consistent and the order is the implementation's.
CountRun(arr) ==
    LET n == Len(arr)
        isDescending == Comparefn(arr[2], arr[1]) < 0
        Continues(idx) ==
            IF isDescending THEN Comparefn(arr[idx], arr[idx - 1]) < 0
            ELSE Comparefn(arr[idx], arr[idx - 1]) >= 0
        R[idx \in 2..n] ==
            IF idx = n THEN n
            ELSE IF Continues(idx + 1) THEN R[idx + 1] ELSE idx
    IN [length |-> R[2], isDescending |-> isDescending]

Reverse(s) == [i \in 1..Len(s) |-> s[Len(s) + 1 - i]]

RECURSIVE BinarySearch(_, _, _, _)
BinarySearch(arr, pivot, left, right) ==
    IF left >= right THEN left
    ELSE LET mid == left + ((right - left) \div 2) IN
         IF GoesBefore(Comparefn(pivot, arr[mid + 1]))
         THEN BinarySearch(arr, pivot, left, mid)
         ELSE BinarySearch(arr, pivot, mid + 1, right)

RECURSIVE BinaryInsertionSort(_, _)
BinaryInsertionSort(arr, start) ==
    IF start > Len(arr) THEN arr
    ELSE LET pivot == arr[start]
             left == BinarySearch(arr, pivot, 0, start - 1)
         IN BinaryInsertionSort(
                SubSeq(arr, 1, left) \o <<pivot>> \o SubSeq(arr, left + 1, start - 1)
                    \o SubSeq(arr, start + 1, Len(arr)),
                start + 1)

SortByPriority(ts) ==
    IF Len(ts) < 2 THEN ts
    ELSE LET run == CountRun(ts)
             made == IF run.isDescending
                     THEN Reverse(SubSeq(ts, 1, run.length))
                            \o SubSeq(ts, run.length + 1, Len(ts))
                     ELSE ts
         IN BinaryInsertionSort(made, run.length + 1)

\* The analysed tasks, sorted. reads holds the values the clock returns to
\* the two reads of every task, in the order of the reads.
AnalyzedTasks(ts, level, reads) ==
    SortByPriority([i \in 1..Len(ts) |->
                      AnalyzeTask(ts[i], level, reads[2 * i - 1], reads[2 * i])])

\* The sequences of n clock values, none before t0 and none before the one
\* before it, that n reads of a clock with the values of instants return.
ClockReads(t0, n, instants) ==
    {r \in [1..n -> {t \in instants : t >= t0}] :
        \A i \in 1..(n - 1) : r[i] <= r[i + 1]}

\* The clock after the reads, which started at t0.
LastRead(t0, reads) == IF Len(reads) = 0 THEN t0 ELSE reads[Len(reads)]

-----------------------------------------------------------------------------
(* StressCoachApp: parsing and validation of the two text areas *)

\* A line "title | minutes | priority | deadline" of the task text. title
\* and priority are the first and the third part, trimmed, the empty text
\* for a part that is empty or not there; minutes is what parseInt returns
\* for the second part: an integer, or NaN for a part that does not begin
\* with a number or is not there; deadline is the fourth part: none, the
\* instant the date it names is, or a text that is not a date.
TaskLine(title, minutes, priority, deadline) ==
    [title |-> title, minutes |-> minutes, priority |-> priority,
     deadline |-> deadline]

\* The texts "Task " and "Task: ".
TaskSpace == Utf16(<<"T", "a", "s", "k", " ">>)
TaskColon == Utf16(<<"T", "a", "s", "k", ":", " ">>)

\* The callback of the map in parseTasksInput: the task of a line. index is
\* the 0-based position of the line among the non-blank lines, t the value
\* Date.now() returns for the id. parseInt(...) || 60 replaces NaN and 0.
MakeTask(line, t, index) ==
    [id |-> [at |-> t, index |-> index],
     title |-> IF line.title = <<>> THEN TaskSpace \o Decimal(index + 1)
               ELSE line.title,
     description |-> TaskColon \o line.title,
     estimated_duration |-> IF line.minutes = NaN \/ line.minutes = 0 THEN 60
                            ELSE line.minutes,
     priority |-> toLowerCase(IF line.priority = <<>> THEN Medium
                              ELSE line.priority),
     category |-> "work",
     is_flexible |-> TRUE,
     deadline |-> line.deadline]

\* parseTasksInput: a task for every non-blank line; reads holds the values
\* the clock returns to the callbacks, in the order of the lines.
parseTasksInput(lines, reads) ==
    [i \in 1..Len(lines) |-> MakeTask(lines[i], reads[i], i - 1)]

\* new Date().toISOString().split('T')[0]: the UTC date when the clock
\* shows t, as the number of the day.
DateOf(t) == (t + HourOfInstant0) \div 24

\* `${today}T${HH:MM}:00`: a date and the minutes of the day a time names,
\* NaN for a text that is not a time.
DateTime(date, minutes) == [date |-> date, minutes |-> minutes]

\* The change of the clock on a date in a time zone.
DayOf(zn, date) ==
    IF zn.change # "none" /\ zn.on = date
    THEN [change |-> zn.change, at |-> zn.at, by |-> zn.by]
    ELSE PlainDay

\* The minutes that have passed since the local midnight when the wall
\* clock shows the given minutes of the day. Where the clock goes forward,
\* a time the day skips counts as if the clock had not changed yet; where
\* it goes back, a time the day has twice is the first of the two.
LocalTime(day, minutes) ==
    IF day.change = "forward"
    THEN IF minutes < day.at + day.by THEN minutes ELSE minutes - day.by
    ELSE IF day.change = "back"
    THEN IF minutes < day.at THEN minutes ELSE minutes + day.by
    ELSE minutes

\* The minutes from the local midnight of day 0 to that of a date: a day
\* on which the clock goes forward is an hour shorter, one on which it goes
\* back an hour longer.
DayStart(zn, date) ==
    date * 1440
      + (IF date <= zn.on \/ zn.change = "none" THEN 0
         ELSE IF zn.change = "forward" THEN 0 - zn.by
         ELSE zn.by)

\* new Date(text), for a text without a time zone: the instant at which
\* the local clock shows it, in minutes; NaN (an Invalid Date) when the
\* time is not a time.
DateValue(text, zn) ==
    IF text.minutes = NaN THEN NaN
    ELSE DayStart(zn, text.date) + LocalTime(DayOf(zn, text.date), text.minutes)

\* Math.max(0, Math.round((end - start) / (1000 * 60))); with an Invalid
\* Date the difference is NaN and so is the result: nothing is thrown.
calculateSlotDuration(startTime, endTime, zn) ==
    LET start == DateValue(startTime, zn)
        end == DateValue(endTime, zn)
    IN IF start = NaN \/ end = NaN THEN NaN ELSE Max(0, end - start)

\* The text of a label; n is the number the default label ends with.
Label(text, n) == [text |-> text, n |-> n]

\* One line of the text area that has a '-' in its first word; index is
\* its 0-based position among the non-blank lines, t the value the clock
\* returns to the callback, which reads it for the date.
ParseSlotLine(line, index, t, zn) ==
    LET label == IF line.label = "" THEN Label("Time slot", index + 1)
                 ELSE Label(line.label, 0)
        today == DateOf(t)
        startTime == DateTime(today, line.start)
        endTime == DateTime(today, line.end)
    IN [kind |-> "slot",
        start_time |-> startTime,
        end_time |-> endTime,
        duration_minutes |-> calculateSlotDuration(startTime, endTime, zn),
        is_available |-> TRUE,
        label |-> label,
        description |-> label]

\* The number of lines for which the callback reads the clock: a line
\* without '-' throws before it does.
DatedLines(lines) ==
    Cardinality({i \in 1..Len(lines) : lines[i].kind = "range"})

\* parseTimeSlots: a line without '-' maps to null and is filtered out;
\* reads holds the values the clock returns to the callbacks that read
\* it, in the order of the lines.
parseTimeSlots(lines, reads, zn) ==
    LET mapped ==
            [i \in 1..Len(lines) |->
                IF lines[i].kind = "bad" THEN Null
                ELSE ParseSlotLine(lines[i], i - 1,
                                   reads[DatedLines(SubSeq(lines, 1, i))], zn)]
    IN SelectSeq(mapped, LAMBDA slot : slot # Null)

\* validateInputs: "tasks" when the task list is empty, "slots" when the slot
\* list is empty, "ok" when it returns true.
validateInputs(ts, timeSlots) ==
    IF Len(ts) = 0 THEN "tasks"
    ELSE IF Len(timeSlots) = 0 THEN "slots"
    ELSE "ok"

-----------------------------------------------------------------------------
(* createOptimizedScheduleFixed *)

Note(text, a, b) == [text |-> text, a |-> a, b |-> b]

Item(task, block, allocated, status, confidence, notes) ==
    [task |-> task,
     time_block |-> block,
     allocated_duration |-> allocated,
     completion_status |-> status,
     scheduling_confidence |-> confidence,
     deadline_urgency |-> task.analysis.deadline_urgency,
     notes |-> notes]

\* The early return for an empty task list or an empty slot list.
EmptyInputSchedule(ts) ==
    [i \in 1..Len(ts) |->
        Item(ts[i], 0, 0, "not_scheduled", 0,
             <<Note("No time slots available", 0, 0)>>)]

\* Variant: the used flag the previous call left on a slot is kept.
MakeAvailableSlotsFlagKept(timeSlots) ==
    [i \in 1..Len(timeSlots) |->
        [start_time |-> timeSlots[i].start_time,
         end_time |-> timeSlots[i].end_time,
         duration_minutes |-> timeSlots[i].duration_minutes,
         is_available |-> timeSlots[i].is_available,
         label |-> timeSlots[i].label,
         description |-> timeSlots[i].description,
         remaining_time |-> timeSlots[i].duration_minutes,
         used |-> (result # Null /\ Len(result.slots) = Len(timeSlots)
                     /\ result.slots[i].used)]]

\* timeSlots.map(slot => ({...slot, remaining_time: ..., used: false}))
MakeAvailableSlots(timeSlots) ==
    [i \in 1..Len(timeSlots) |->
        [start_time |-> timeSlots[i].start_time,
         end_time |-> timeSlots[i].end_time,
         duration_minutes |-> timeSlots[i].duration_minutes,
         is_available |-> timeSlots[i].is_available,
         label |-> timeSlots[i].label,
         description |-> timeSlots[i].description,
         remaining_time |-> timeSlots[i].duration_minutes,
         used |-> FALSE]]

TotalTaskTime(ts) == SumSeq([i \in 1..Len(ts) |-> ts[i].estimated_duration])
\* timeSlots.reduce((total, slot) => total + slot.duration_minutes, 0): NaN
\* when a duration is NaN.
TotalAvailableTime(timeSlots) ==
    IF \E i \in 1..Len(timeSlots) : timeSlots[i].duration_minutes = NaN
    THEN NaN
    ELSE SumSeq([i \in 1..Len(timeSlots) |-> timeSlots[i].duration_minutes])

\* a >= b and a > b on numbers that may be NaN: false when either is.
Geq(a, b) == a # NaN /\ b # NaN /\ a >= b
Gt(a, b) == a # NaN /\ b # NaN /\ a > b

\* Variant: the used flag not consulted.
BestFitSlotIgnoringUsed(slots, taskDuration) ==
    LET Fits(i) == Geq(slots[i].remaining_time, taskDuration)
        F[i \in 0..Len(slots)] ==
            IF i = 0 THEN 0
            ELSE IF Fits(i) /\ (F[i-1] = 0 \/
                      slots[i].remaining_time < slots[F[i-1]].remaining_time)
                 THEN i
                 ELSE F[i-1]
    IN F[Len(slots)]

\* Variant: the first unused slot that holds taskDuration.
FirstFitSlot(slots, taskDuration) ==
    LET Fits(i) == ~slots[i].used /\ Geq(slots[i].remaining_time, taskDuration)
        F[i \in 0..Len(slots)] ==
            IF i = 0 THEN 0
            ELSE IF Fits(i) /\ F[i-1] = 0 THEN i ELSE F[i-1]
    IN F[Len(slots)]

\* Strategy 1 scan: the index of the unused slot that holds taskDuration with
\* the least left over, the first such slot on a tie; 0 when there is none.
BestFitSlot(slots, taskDuration) ==
    LET Fits(i) == ~slots[i].used /\ Geq(slots[i].remaining_time, taskDuration)
        F[i \in 0..Len(slots)] ==
            IF i = 0 THEN 0
            ELSE IF Fits(i) /\ (F[i-1] = 0 \/
                      slots[i].remaining_time < slots[F[i-1]].remaining_time)
                 THEN i
                 ELSE F[i-1]
    IN F[Len(slots)]

\* Variant: the first unused slot with at least 15 minutes left.
FirstRoomySlot(slots) ==
    LET F[i \in 0..Len(slots)] ==
            IF i = 0 THEN 0
            ELSE IF ~slots[i].used /\ F[i-1] = 0
                    /\ Geq(slots[i].remaining_time, 15)
                 THEN i
                 ELSE F[i-1]
    IN F[Len(slots)]

\* Variant: a slot needs more than 15 minutes left.
LargestSlotOver15(slots) ==
    LET F[i \in 0..Len(slots)] ==
            IF i = 0 THEN 0
            ELSE IF ~slots[i].used
                    /\ Gt(slots[i].remaining_time,
                          IF F[i-1] = 0 THEN 0 ELSE slots[F[i-1]].remaining_time)
                    /\ Gt(slots[i].remaining_time, 15)
                 THEN i
                 ELSE F[i-1]
    IN F[Len(slots)]

\* Strategy 2 scan: the unused slot with the most remaining time, at least
\* 15 minutes, the first such slot on a tie; 0 when there is none.
LargestSlot(slots) ==
    LET F[i \in 0..Len(slots)] ==
            IF i = 0 THEN 0
            ELSE IF ~slots[i].used
                    /\ Gt(slots[i].remaining_time,
                          IF F[i-1] = 0 THEN 0 ELSE slots[F[i-1]].remaining_time)
                    /\ Geq(slots[i].remaining_time, 15)
                 THEN i
                 ELSE F[i-1]
    IN F[Len(slots)]

\* Strategy 3: availableSlots.find(slot => !slot.used && remaining_time >= 10)
FirstUsableSlot(slots) ==
    LET found == {i \in 1..Len(slots) :
                    ~slots[i].used /\ Geq(slots[i].remaining_time, 10)}
    IN IF found = {} THEN 0
       ELSE CHOOSE i \in found : \A j \in found : i <= j

\* Variant: partial items are taken again too.
UnfinishedHighPriority(sched) ==
    FilterIdx(sched, LAMBDA item :
        item.completion_status \in {"not_scheduled", "partial"}
        /\ (item.task.priority = High \/ item.deadline_urgency > 80))

\* Variant: every not_scheduled item is taken, whatever its task.
UnscheduledAll(sched) ==
    FilterIdx(sched, LAMBDA item : item.completion_status = "not_scheduled")

\* schedule.filter(not_scheduled and (priority high or deadline_urgency > 0.8))
UnscheduledHighPriority(sched) ==
    FilterIdx(sched, LAMBDA item :
        item.completion_status = "not_scheduled"
        /\ (item.task.priority = High \/ item.deadline_urgency > 80))

\* Where control goes when the Strategy 2 loop has ended.
AfterPhase2(e) ==
    LET q == UnscheduledHighPriority(e.schedule) IN
    [e EXCEPT !.queue = q, !.k = 1,
              !.pc = IF Len(q) > 0 THEN "phase3" ELSE "ret"]

\* Where control goes when the Strategy 1 loop has ended.
AfterPhase1(e) ==
    IF Len(e.remainingTasks) > 0
    THEN [e EXCEPT !.pc = "phase2", !.k = 1]
    ELSE AfterPhase2(e)

\* Variant: the placed task stays in remainingTasks.
SpliceTaskKept(rem, taskIndex) == rem

\* remainingTasks.splice(taskIndex, 1) inside the forEach over remainingTasks
SpliceTask(rem, taskIndex) == RemoveAt(rem, taskIndex)

\* Variant: the minutes are always subtracted and the slot is never marked.
TakeWithoutMark(slot, taskDuration) ==
    [slot EXCEPT !.remaining_time = @ - taskDuration]

\* Strategy 1 slot update: a slot the task fills exactly is marked used and
\* keeps its remaining_time; any other slot loses the task's minutes.
TakeFromSlot(slot, taskDuration) ==
    IF slot.remaining_time = taskDuration
    THEN [slot EXCEPT !.used = TRUE]
    ELSE [slot EXCEPT !.remaining_time = @ - taskDuration]

\* One callback of the Strategy 1 forEach, for the element at index e.k.
\* forEach then moves to index k+1 of the array as it is now and stops at
\* the first index the array no longer has.
Phase1Callback(e) ==
    LET task == e.remainingTasks[e.k]
        taskDuration == task.estimated_duration
        best == BestFitSlot(e.availableSlots, taskDuration)
        e1 == IF best = 0 THEN e
              ELSE [e EXCEPT
                     !.schedule = Append(@,
                        Item(task, best, taskDuration, "complete", 90,
                             <<Note("Perfect fit in {a}-minute slot",
                                    e.availableSlots[best].duration_minutes, 0)>>)),
                     !.availableSlots[best] = TakeFromSlot(@, taskDuration),
                     !.remainingTasks = SpliceTask(@, e.k)]
        e2 == [e1 EXCEPT !.k = e.k + 1]
    IN IF e2.k <= Len(e2.remainingTasks) THEN e2 ELSE AfterPhase1(e2)

\* Variant: the whole remaining time of the slot is given to the task.
AllocateWholeSlot(taskDuration, maxAvailableTime) == maxAvailableTime

\* Strategy 2: Math.min(taskDuration, maxAvailableTime)
AllocatedTime(taskDuration, maxAvailableTime) ==
    Min(taskDuration, maxAvailableTime)

\* Variant: every placement of Strategy 2 is called partial.
Phase2StatusPartial(isPartial, isScaled) == "partial"

\* Variant: the totals are not consulted.
Phase2StatusUnscaled(isPartial, isScaled) ==
    IF isPartial THEN "partial" ELSE "complete"

\* The status of a Strategy 2 placement.
Phase2Status(isPartial, isScaled) ==
    IF isPartial THEN "partial" ELSE IF isScaled THEN "scaled" ELSE "complete"

\* The text " (Partial)".
PartialMark == Utf16(<<" ", "(", "P", "a", "r", "t", "i", "a", "l", ")">>)

\* Variant: every title phase 2 writes is marked.
TitleAlwaysMarked(title, isPartial) == title \o PartialMark

\* Strategy 2: isPartial ? `${task.title} (Partial)` : task.title
Phase2Title(title, isPartial) ==
    IF isPartial THEN title \o PartialMark ELSE title

\* One callback of the Strategy 2 forEach.
Phase2Callback(e, totalTaskTime, totalAvailableTime) ==
    LET task == e.remainingTasks[e.k]
        taskDuration == task.estimated_duration
        best == LargestSlot(e.availableSlots)
        maxAvailableTime ==
            IF best = 0 THEN 0 ELSE e.availableSlots[best].remaining_time
        allocatedTime == AllocatedTime(taskDuration, maxAvailableTime)
        isPartial == allocatedTime < taskDuration
        isScaled == Gt(totalTaskTime, totalAvailableTime)
        e1 == IF best # 0 /\ maxAvailableTime > 0
              THEN [e EXCEPT
                     !.schedule = Append(@,
                        Item([task EXCEPT !.title = Phase2Title(@, isPartial)],
                             best, allocatedTime,
                             Phase2Status(isPartial, isScaled),
                             IF isPartial THEN 60 ELSE 80,
                             <<IF isPartial
                               THEN Note("Partial scheduling: {a} of {b} minutes",
                                         allocatedTime, taskDuration)
                               ELSE Note("Scheduled in available {a}-minute slot",
                                         allocatedTime, 0)>>)),
                     !.availableSlots[best] =
                        [@ EXCEPT !.remaining_time = @ - allocatedTime,
                                  !.used = (@ \/
                                     e.availableSlots[best].remaining_time
                                        - allocatedTime < 15)]]
              ELSE [e EXCEPT
                     !.schedule = Append(@,
                        Item(task, 0, 0, "not_scheduled", 0,
                             <<Note("No available time slots remaining - consider adding more time blocks",
                                    0, 0)>>))]
        e2 == [e1 EXCEPT !.k = e.k + 1]
    IN IF e2.k <= Len(e2.remainingTasks) THEN e2 ELSE AfterPhase2(e2)

\* Variant: a rescued task is marked scaled whatever it is given.
Phase3AlwaysScaled(allocatedTime, taskDuration) == "scaled"

\* Variant: a rescued task keeps the status it had.
Phase3StatusKept(allocatedTime, taskDuration) == "not_scheduled"

\* completion_status of an item placed by Strategy 3.
Phase3Status(allocatedTime, taskDuration) ==
    IF allocatedTime < taskDuration THEN "partial" ELSE "scaled"

\* One callback of the Strategy 3 forEach over unscheduledHighPriority.
Phase3Callback(e) ==
    LET idx == e.queue[e.k]
        item == e.schedule[idx]
        smallestSlot == FirstUsableSlot(e.availableSlots)
        remaining == e.availableSlots[smallestSlot].remaining_time
        allocatedTime == Min(item.task.estimated_duration, remaining)
        e1 == IF smallestSlot = 0 THEN e
              ELSE [e EXCEPT
                     !.schedule[idx] =
                        [@ EXCEPT
                           !.time_block = smallestSlot,
                           !.allocated_duration = allocatedTime,
                           !.completion_status =
                              Phase3Status(allocatedTime,
                                           item.task.estimated_duration),
                           !.scheduling_confidence = 50,
                           !.notes = <<Note("Emergency scheduling: {a} minutes for high-priority task",
                                            allocatedTime, 0)>>],
                     !.availableSlots[smallestSlot] =
                        [@ EXCEPT !.remaining_time = @ - allocatedTime,
                                  !.used = (@ \/ remaining - allocatedTime < 10)]]
        e2 == [e1 EXCEPT !.k = e.k + 1]
    IN IF e2.k <= Len(e2.queue) THEN e2 ELSE [e2 EXCEPT !.pc = "ret"]

\* The state of createOptimizedScheduleFixed when its first loop starts, or at
\* its early return.
StartEngine(sorted, timeSlots) ==
    IF Len(sorted) = 0 \/ Len(timeSlots) = 0
    THEN [pc |-> "ret", k |-> 1, remainingTasks |-> <<>>,
          availableSlots |-> <<>>, schedule |-> EmptyInputSchedule(sorted),
          queue |-> <<>>]
    ELSE [pc |-> "phase1", k |-> 1, remainingTasks |-> sorted,
          availableSlots |-> MakeAvailableSlots(timeSlots),
          schedule |-> <<>>, queue |-> <<>>]

StepEngine(e, totalTaskTime, totalAvailableTime) ==
    IF e.pc = "phase1" THEN Phase1Callback(e)
    ELSE IF e.pc = "phase2"
         THEN Phase2Callback(e, totalTaskTime, totalAvailableTime)
    ELSE Phase3Callback(e)

RECURSIVE RunEngine(_, _, _)
RunEngine(e, totalTaskTime, totalAvailableTime) ==
    IF e.pc = "ret" THEN e
    ELSE RunEngine(StepEngine(e, totalTaskTime, totalAvailableTime),
                   totalTaskTime, totalAvailableTime)

-----------------------------------------------------------------------------
(* Summary helpers and the value processScheduleLocally returns *)

getStressImpact(level) ==
    IF level >= 8 THEN "High stress significantly limits task capacity"
    ELSE IF level >= 5 THEN "Moderate stress affects task selection"
    ELSE "Low stress allows for optimal productivity"

getStressActions(level) ==
    IF level >= 7 THEN <<"simplify_tasks", "add_breaks", "postpone_non_urgent">>
    ELSE IF level >= 4 THEN <<"balance_tasks", "moderate_breaks">>
    ELSE <<"challenge_optimal", "minimal_breaks">>

\* Variant: the three outcome messages are independent of one another.
RecommendationsFlat(sched, level) ==
    LET unscheduled ==
            CountIf(sched, LAMBDA item : item.completion_status = "not_scheduled")
        partial ==
            CountIf(sched, LAMBDA item : item.completion_status = "partial")
        scheduled ==
            CountIf(sched, LAMBDA item : item.allocated_duration > 0)
    IN (IF scheduled = Len(sched)
        THEN <<Note("All tasks successfully scheduled!", 0, 0)>> ELSE <<>>)
       \o
       (IF unscheduled > 0
        THEN <<Note("{a} tasks need additional time slots - consider extending your schedule",
                    unscheduled, 0)>>
        ELSE <<>>)
       \o
       (IF partial > 0
        THEN <<Note("{a} tasks are partially scheduled - plan follow-up sessions",
                    partial, 0)>>
        ELSE <<>>)
       \o
       (IF level >= 7
        THEN <<Note("High stress detected - take breaks between tasks", 0, 0)>>
        ELSE <<>>)

generateRecommendations(sched, level) ==
    LET unscheduled ==
            CountIf(sched, LAMBDA item : item.completion_status = "not_scheduled")
        partial ==
            CountIf(sched, LAMBDA item : item.completion_status = "partial")
        scheduled ==
            CountIf(sched, LAMBDA item : item.allocated_duration > 0)
        r1 == IF scheduled = Len(sched)
              THEN <<Note("All tasks successfully scheduled!", 0, 0)>>
              ELSE (IF unscheduled > 0
                    THEN <<Note("{a} tasks need additional time slots - consider extending your schedule",
                                unscheduled, 0)>>
                    ELSE <<>>)
                   \o
                   (IF partial > 0
                    THEN <<Note("{a} tasks are partially scheduled - plan follow-up sessions",
                                partial, 0)>>
                    ELSE <<>>)
    IN r1 \o (IF level >= 7
              THEN <<Note("High stress detected - take breaks between tasks", 0, 0)>>
              ELSE <<>>)

\* schedule.filter(item => item.allocated_duration > 0).length
ScheduledCount(sched) ==
    CountIf(sched, LAMBDA item : item.allocated_duration > 0)

\* The object processScheduleLocally returns. slots is the array the
\* time_block references of the items point into; total_work_hours is the
\* fraction num/60; t is the value the clock returns for generated_at.
BuildResult(ts, e, level, mood, t) ==
    [kind |-> "result",
     optimized_schedule |-> e.schedule,
     slots |-> e.availableSlots,
     stress_analysis |->
        [level |-> level,
         impact |-> getStressImpact(level),
         recommended_actions |-> getStressActions(level)],
     task_analysis |->
        [total_tasks |-> Len(ts),
         scheduled_tasks |-> ScheduledCount(e.schedule)],
     insights |->
        [scheduling_summary |->
            [total_work_hours |->
                [num |-> SumSeq([i \in 1..Len(e.schedule) |->
                                    e.schedule[i].allocated_duration]),
                 den |-> 60],
             average_scheduling_confidence |-> 85],
         mood_optimization |-> mood,
         recommendations |-> generateRecommendations(e.schedule, level)],
     ai_metadata |->
        [ai_enabled |-> TRUE,
         analysis_method |-> "Local AI Agent - Fixed",
         generated_at |-> t]]

\* processScheduleLocally run from its call to its return. reads holds the
\* values the clock returns to the reads of the call: two for every task,
\* then the one for generated_at.
processScheduleLocally(ts, timeSlots, level, mood, reads) ==
    LET sorted == AnalyzedTasks(ts, level, SubSeq(reads, 1, 2 * Len(ts)))
        e == RunEngine(StartEngine(sorted, timeSlots),
                       TotalTaskTime(sorted), TotalAvailableTime(timeSlots))
    IN BuildResult(ts, e, level, mood, reads[2 * Len(ts) + 1])

-----------------------------------------------------------------------------
(* The state machine *)

Priorities == {High, Low}

\* The lines a task text is made of: each duration with each priority and
\* no deadline, two tasks due in four hours, one of high and one of low
\* priority, and a task "review analysis", whose final priority is the
\* double next above that of the same task "report".
TaskKinds ==
    { TaskLine(title, d, p, NoDeadline) :
        title \in Titles, d \in Durations, p \in Priorities }
    \cup
    { TaskLine(Report, 30, High, DeadlineAt(4)),
      TaskLine(Report, 10, Low, DeadlineAt(4)),
      TaskLine(ReviewAnalysis, 30, Low, NoDeadline) }

\* Task texts of up to MaxTasks lines.
TaskLists == UNION { [1..n -> TaskKinds] : n \in 0..MaxTasks }

SlotLineLists == UNION { [1..n -> SlotLineKinds] : n \in 0..MaxSlots }

Eng == [pc |-> pc, k |-> k, remainingTasks |-> remainingTasks,
        availableSlots |-> availableSlots, schedule |-> schedule,
        queue |-> queue]

SetEng(e) ==
    /\ pc' = e.pc
    /\ k' = e.k
    /\ remainingTasks' = e.remainingTasks
    /\ availableSlots' = e.availableSlots
    /\ schedule' = e.schedule
    /\ queue' = e.queue

IdleEng == [pc |-> "idle", k |-> 1, remainingTasks |-> <<>>,
            availableSlots |-> <<>>, schedule |-> <<>>, queue |-> <<>>]

\* The texts showMessage is given.
NoTasksMessage ==
    "Please enter at least one task. Format: Task Title | Duration(min) | Priority | Deadline"
NoSlotsMessage ==
    "Please enter at least one time slot in format \"09:00-11:00 Morning work\""
SuccessMessage == "AI schedule generated successfully!"
\* `Failed to generate schedule: ${error.message}`, whatever the error.
FailureMessage == "Failed to generate schedule: "
ClearedMessage == "Form cleared successfully"

\* The elements displayResults fills, in the order in which it fills them.
Elements ==
    <<"totalTasks", "scheduledTasks", "totalHours", "avgConfidence",
      "stressResults", "scheduleItems", "recommendationsList">>

\* The numbers of elements an answer of the server gets displayed before a
\* statement throws: none for the answer null, one for an
\* optimized_schedule that is [null], and so on to all seven for an
\* answer of the shape of a result.
AnyAnswer == 0..Len(Elements)
\* The answers of the behaviours with several requests: null and a result.
SomeAnswers == {0, Len(Elements)}

\* What the elements hold when each holds what source has put there:
\* "none", "local" for the last result of the local agent, "server" for
\* what the server has sent.
Holding(source) == [j \in 1..Len(Elements) |-> source]

\* The arguments of a call: the tasks, the windows, the stress level and the
\* mood, with the clock value at which the call begins.
Arguments(ts, timeSlots, level, mood, t) ==
    [tasks |-> ts, timeSlots |-> timeSlots, stressLevel |-> level,
     mood |-> mood, now |-> t]

\* No call has been made: the instant is none the clock shows.
NoCall == Arguments(<<>>, <<>>, 5, "focused", 0 - 1)

\* The page after the constructor has run, but for the form.
Constructed ==
    /\ now = 0
    /\ call = NoCall
    /\ prevCall = NoCall
    /\ pc = "idle"
    /\ k = 1
    /\ remainingTasks = <<>>
    /\ availableSlots = <<>>
    /\ schedule = <<>>
    /\ queue = <<>>
    /\ result = Null
    /\ prevResult = Null
    /\ calls = 0
    /\ message = "none"
    /\ pending = <<>>
    /\ panel = [loading |-> FALSE, results |-> FALSE,
                holds |-> Holding("none")]

Init ==
    /\ taskLines \in TaskLists
    /\ slotLines \in SlotLineLists
    /\ stressLevel \in StressLevels
    /\ selectedMood = "focused"
    /\ zone = NoChange
    /\ Constructed

inputs == <<taskLines, slotLines, stressLevel, selectedMood, zone>>
engine == <<pc, k, remainingTasks, availableSlots, schedule, queue>>

\* StressCoachApp.analyzeAndSchedule up to its await: the form is read,
\* parsed (the clock is read once for every task line and then once for
\* every line parseTimeSlots dates) and validated; a valid request shows
\* the loading indicator, hides the results and waits for fetch with the
\* tasks and slots it has parsed. limit bounds the number of requests of a
\* behaviour, instants are the values its clock takes.
AnalyzeClick(limit, instants) ==
    /\ calls < limit
    /\ pc = "idle"
    /\ calls' = calls + 1
    /\ \E reads \in ClockReads(now, Len(taskLines) + DatedLines(slotLines),
                               instants) :
          LET ts == parseTasksInput(taskLines, SubSeq(reads, 1, Len(taskLines)))
              parsed == parseTimeSlots(slotLines,
                                       SubSeq(reads, Len(taskLines) + 1,
                                              Len(reads)),
                                       zone)
              valid == validateInputs(ts, parsed)
          IN /\ now' = LastRead(now, reads)
             /\ IF valid # "ok"
                THEN /\ message' = (IF valid = "tasks" THEN NoTasksMessage
                                    ELSE NoSlotsMessage)
                     /\ UNCHANGED <<pending, panel>>
                ELSE /\ pending' = Append(pending, [tasks |-> ts,
                                                    timeSlots |-> parsed])
                     /\ panel' = [panel EXCEPT !.loading = TRUE,
                                               !.results = FALSE]
                     /\ UNCHANGED message
    /\ UNCHANGED <<inputs, call, prevCall, engine, result, prevResult>>

\* analyzeAndSchedule after an await that failed (fetch rejected, the
\* response was not ok or was not JSON): it calls
\* aiAgent.processScheduleLocally with the tasks and slots the invocation
\* parsed and the stress level and the mood the app has now. The call
\* analyses the tasks, reading the clock twice for every task, sorts them
\* and runs up to the first forEach of createOptimizedScheduleFixed.
FetchRejected(instants) ==
    /\ pc = "idle"
    /\ \E i \in 1..Len(pending) :
          \E reads \in ClockReads(now, 2 * Len(pending[i].tasks), instants) :
              /\ call' = Arguments(pending[i].tasks, pending[i].timeSlots,
                                   stressLevel, selectedMood, now)
              /\ SetEng(StartEngine(AnalyzedTasks(pending[i].tasks,
                                                  stressLevel, reads),
                                    pending[i].timeSlots))
              /\ now' = LastRead(now, reads)
              /\ pending' = RemoveAt(pending, i)
    /\ prevCall' = call
    /\ UNCHANGED <<inputs, result, prevResult, calls, message, panel>>

Phase1Visit ==
    /\ pc = "phase1"
    /\ SetEng(Phase1Callback(Eng))
    /\ UNCHANGED <<inputs, now, call, prevCall, result, prevResult, calls,
                   message, pending, panel>>

\* totalTaskTime is the sum over the tasks of the call, whatever their order.
Phase2Visit ==
    /\ pc = "phase2"
    /\ SetEng(Phase2Callback(Eng, TotalTaskTime(call.tasks),
                             TotalAvailableTime(call.timeSlots)))
    /\ UNCHANGED <<inputs, now, call, prevCall, result, prevResult, calls,
                   message, pending, panel>>

Phase3Visit ==
    /\ pc = "phase3"
    /\ SetEng(Phase3Callback(Eng))
    /\ UNCHANGED <<inputs, now, call, prevCall, result, prevResult, calls,
                   message, pending, panel>>

\* createOptimizedScheduleFixed returns and processScheduleLocally builds and
\* returns its result, reading the clock for generated_at; the locals of the
\* call are gone. analyzeAndSchedule then fills every element of the
\* results panel with the result, reports success and hides the loading
\* indicator.
Return(instants) ==
    /\ pc = "ret"
    /\ \E t \in instants :
          /\ t >= now
          /\ now' = t
          /\ result' = BuildResult(call.tasks, Eng, call.stressLevel,
                                   call.mood, t)
    /\ prevResult' = result
    /\ SetEng(IdleEng)
    /\ message' = SuccessMessage
    /\ panel' = [loading |-> FALSE, results |-> TRUE,
                 holds |-> Holding("local")]
    /\ UNCHANGED <<inputs, call, prevCall, calls, pending>>

\* analyzeAndSchedule after the server has answered with JSON: the local
\* agent is not run. displayResults shows the results panel and fills its
\* elements one after the other with what the server sent; when that has
\* not the shape of a result, the statement that fills an element throws,
\* the elements before it hold what the server sent, the others what they
\* held, and the failure is reported. written is the number of elements
\* filled: all of them when nothing throws; answers are the numbers the
\* answers of a behaviour's server lead to.
FetchResolved(answers) ==
    /\ pc = "idle"
    /\ \E i \in 1..Len(pending) : pending' = RemoveAt(pending, i)
    /\ \E written \in answers :
          /\ panel' = [loading |-> FALSE, results |-> TRUE,
                       holds |-> [j \in 1..Len(Elements) |->
                                    IF j <= written THEN "server"
                                    ELSE panel.holds[j]]]
          /\ message' = (IF written = Len(Elements) THEN SuccessMessage
                         ELSE FailureMessage)
    /\ UNCHANGED <<inputs, now, call, prevCall, engine, result, prevResult,
                   calls>>

\* AITaskSchedulerAgent.processScheduleLocally applied to arguments of the
\* caller's choice, from the call to its return: the function the page
\* reaches only with tasks and windows that validateInputs has let through.
\* The clock is read twice for every task and once for generated_at.
AgentCall(limit, taskListsOf, slotListsOf, levels, instants) ==
    /\ calls < limit
    /\ pc = "idle"
    /\ calls' = calls + 1
    /\ \E ts \in taskListsOf, timeSlots \in slotListsOf, level \in levels :
          \E reads \in ClockReads(now, 2 * Len(ts) + 1, instants) :
              /\ call' = Arguments(ts, timeSlots, level, selectedMood, now)
              /\ result' = processScheduleLocally(ts, timeSlots, level,
                                                  selectedMood, reads)
              /\ now' = LastRead(now, reads)
    /\ prevCall' = call
    /\ prevResult' = result
    /\ UNCHANGED <<inputs, engine, message, pending, panel>>

\* The 'input' listener of the stress slider.
SliderInput(levels) ==
    /\ pc = "idle"
    /\ \E level \in levels : level # stressLevel /\ stressLevel' = level
    /\ UNCHANGED <<taskLines, slotLines, selectedMood, zone, now, call,
                   prevCall, engine, result, prevResult, calls, message,
                   pending, panel>>

\* The 'click' listener of a mood option.
MoodClick(moods) ==
    /\ pc = "idle"
    /\ \E mood \in moods : mood # selectedMood /\ selectedMood' = mood
    /\ UNCHANGED <<taskLines, slotLines, stressLevel, zone, now, call,
                   prevCall, engine, result, prevResult, calls, message,
                   pending, panel>>

\* The user changes the task text.
EditTasks(lists) ==
    /\ pc = "idle"
    /\ \E lines \in lists : lines # taskLines /\ taskLines' = lines
    /\ UNCHANGED <<slotLines, stressLevel, selectedMood, zone, now, call,
                   prevCall, engine, result, prevResult, calls, message,
                   pending, panel>>

\* The user changes the time-slot text.
EditSlots(lists) ==
    /\ pc = "idle"
    /\ \E lines \in lists : lines # slotLines /\ slotLines' = lines
    /\ UNCHANGED <<taskLines, stressLevel, selectedMood, zone, now, call,
                   prevCall, engine, result, prevResult, calls, message,
                   pending, panel>>

\* StressCoachApp.clearAll
ClearAll ==
    /\ pc = "idle"
    /\ taskLines' = <<>>
    /\ slotLines' = <<>>
    /\ stressLevel' = 5
    /\ selectedMood' = "focused"
    /\ panel' = [panel EXCEPT !.results = FALSE]
    /\ message' = ClearedMessage
    /\ UNCHANGED <<zone, now, call, prevCall, engine, result, prevResult,
                   calls, pending>>

\* Time passes: the clock shows a later hour, of the same day or of a
\* later one.
Tick(instants) ==
    /\ \E t \in instants : t > now /\ now' = t
    /\ UNCHANGED <<inputs, call, prevCall, engine, result, prevResult, calls,
                   message, pending, panel>>

\* One request, made while no time passes and the form is left alone.
Next ==
    \/ AnalyzeClick(1, Still)
    \/ FetchRejected(Still)
    \/ Phase1Visit
    \/ Phase2Visit
    \/ Phase3Visit
    \/ Return(Still)
    \/ FetchResolved(AnyAnswer)

Spec == Init /\ [][Next]_vars

\* Behaviours with up to MaxCalls requests of up to MaxTasksNarrow tasks, in
\* and between which time may pass.
TaskKindsTwice ==
    { TaskLine(title, 30, High, d) : title \in Titles, d \in DeadlinesTwice }

TaskListsTwice == UNION { [1..n -> TaskKindsTwice] : n \in 0..MaxTasksNarrow }

InitTwice ==
    /\ taskLines \in TaskListsTwice
    /\ slotLines \in UNION { [1..n -> SlotLineKindsTwice] : n \in 0..MaxSlots }
    /\ stressLevel \in StressLevels
    /\ selectedMood = "focused"
    /\ zone = NoChange
    /\ Constructed

NextTwice ==
    \/ AnalyzeClick(MaxCalls, Instants)
    \/ FetchRejected(Instants)
    \/ Phase1Visit
    \/ Phase2Visit
    \/ Phase3Visit
    \/ Return(Instants)
    \/ FetchResolved(SomeAnswers)
    \/ Tick(Instants)

SpecTwice == InitTwice /\ [][NextTwice]_vars

\* Scenario E: three tasks that ask for 200 minutes in all and two windows
\* of 150 minutes in all; each task is either of high priority and due in
\* four hours or of low priority without a deadline, and at least one is of
\* the first kind.
EDurations == {10 * i : i \in 1..18}
ETaskKinds ==
    { TaskLine(Report, d, High, DeadlineAt(4)) : d \in EDurations }
    \cup
    { TaskLine(Report, d, Low, NoDeadline) : d \in EDurations }

ETaskLists ==
    { g \in [1..3 -> ETaskKinds] :
        /\ g[1].minutes + g[2].minutes + g[3].minutes = 200
        /\ \E i \in 1..3 : g[i].priority = High }

ESlotLineLists ==
    { <<SlotLine(540, 540 + w), SlotLine(540, 540 + (150 - w))>> :
        w \in {10 * i : i \in 1..14} }

InitE ==
    /\ taskLines \in ETaskLists
    /\ slotLines \in ESlotLineLists
    /\ stressLevel \in StressLevels
    /\ selectedMood = "focused"
    /\ zone = NoChange
    /\ Constructed

SpecE == InitE /\ [][Next]_vars

\* Behaviours with windows shorter than the tasks, with two stress levels
\* and with titles the scoring finds words in: tasks of 20 and 30 minutes,
\* windows of 15, 20 and 30 minutes, stress 5 and 7, and the titles
\* "report" and "review analysis", which has a word of either list.
StressLevelsNarrow == {5, 7}
TitlesNarrow == {Report, ReviewAnalysis}
TaskKindsNarrow ==
    { TaskLine(title, d, p, NoDeadline) :
        title \in TitlesNarrow, d \in {20, 30}, p \in Priorities }
SlotLineKindsNarrow ==
    {SlotLine(540, 555), SlotLine(540, 560), SlotLine(540, 570)}

InitNarrow ==
    /\ taskLines \in UNION { [1..n -> TaskKindsNarrow] : n \in 0..MaxTasksNarrow }
    /\ slotLines \in UNION { [1..n -> SlotLineKindsNarrow] : n \in 0..MaxSlotsNarrow }
    /\ stressLevel \in StressLevelsNarrow
    /\ selectedMood = "focused"
    /\ zone = NoChange
    /\ Constructed

SpecNarrow == InitNarrow /\ [][Next]_vars

\* Requests with two tasks that differ only in their deadline: deadlines
\* before, at and after each threshold of calculateDeadlineUrgency, counted
\* in hours from instant 0, and one already past; the one window holds the
\* first of the two tasks.
UrgencyDeadlines ==
    {DeadlineAt(h) : h \in {-10, 0, 6, 7, 24, 25, 48, 49, 168, 169, 190}}

InitUrgency ==
    /\ taskLines \in { <<TaskLine(Report, 30, High, d1),
                         TaskLine(Report, 30, High, d2)>> :
                         d1 \in UrgencyDeadlines, d2 \in UrgencyDeadlines }
    /\ slotLines = <<SlotLine(540, 570)>>
    /\ stressLevel \in StressLevels
    /\ selectedMood = "focused"
    /\ zone = NoChange
    /\ Constructed

\* One request that the local agent answers, while time may pass.
NextUrgency ==
    \/ AnalyzeClick(1, Instants)
    \/ FetchRejected(Instants)
    \/ Phase1Visit
    \/ Phase2Visit
    \/ Phase3Visit
    \/ Return(Instants)
    \/ Tick(Instants)

SpecUrgency == InitUrgency /\ [][NextUrgency]_vars

\* Requests with two tasks whose deadline may also be absent or a string
\* that is not a date.
DeadlinesAny == UrgencyDeadlines \cup {NoDeadline, InvalidDeadline}

InitDeadline ==
    /\ taskLines \in { <<TaskLine(Report, 30, High, d1),
                         TaskLine(Report, 30, High, d2)>> :
                         d1 \in DeadlinesAny, d2 \in DeadlinesAny }
    /\ slotLines = <<SlotLine(540, 570)>>
    /\ stressLevel \in StressLevels
    /\ selectedMood = "focused"
    /\ zone = NoChange
    /\ Constructed

SpecDeadline == InitDeadline /\ [][NextUrgency]_vars

\* Requests with task lines as a user may type them, which parseTasksInput
\* turns into tasks without a complaint: tasks of 12 and 30 minutes and of
\* high priority, a task "report | -5 | high", a task of low priority, a
\* task with the priority "constructor", for which the priority map answers
\* with a function and the final priority is NaN, and the line
\* " | abc | HIGH", which has no title and no number. The windows are of 12
\* minutes.
TaskKindsLines ==
    { TaskLine(Report, 12, High, NoDeadline),
      TaskLine(Report, 0 - 5, High, NoDeadline),
      TaskLine(Report, 30, High, NoDeadline),
      TaskLine(Report, 30, Low, NoDeadline),
      TaskLine(Report, 20, Constructor, NoDeadline),
      TaskLine(<<>>, NaN, HighInCapitals, NoDeadline) }
SlotLineKindsLines == {SlotLine(540, 552)}

InitLines ==
    /\ taskLines \in UNION { [1..n -> TaskKindsLines] : n \in 0..MaxTasks }
    /\ slotLines \in UNION { [1..n -> SlotLineKindsLines] : n \in 0..MaxSlots }
    /\ stressLevel \in StressLevels
    /\ selectedMood = "focused"
    /\ zone = NoChange
    /\ Constructed

SpecLines == InitLines /\ [][Next]_vars

\* Requests whose time-slot text has lines of every kind, in time zones
\* with and without a change of the clock on the day of the request or on
\* the next, while time may pass, so that two lines of one text may be
\* dated differently: the windows 01:30-03:30 "Morning work", 03:05-02:30,
\* 09:30-09:00 and 09:00-09:30, the line "9:00-10:00", whose start is not a
\* time, and a line without '-'. The request has no task, one task, or two
\* of which the second has the priority "constructor"; the tasks take 30
\* and 20 minutes, one has a title in capitals and one a title that has the
\* Kelvin sign for a K.
Zones == {NoChange, ForwardOn(0), ForwardOn(1), BackOn(0), BackOn(1)}
SlotLineKindsParse ==
    { [SlotLine(90, 210) EXCEPT !.label = "Morning work"],
      SlotLine(185, 150),
      SlotLine(570, 540),
      SlotLine(540, 570),
      SlotLine(NaN, 600),
      BadLine }
InheritedPriorityTask == TaskLine(Report, 20, Constructor, NoDeadline)
TaskKindsParse ==
    { TaskLine(Report, 30, High, NoDeadline),
      TaskLine(Preview, 20, Low, NoDeadline),
      TaskLine(QuickFix, 20, Low, NoDeadline),
      InheritedPriorityTask }
TaskListsParse ==
    { <<>> }
    \cup { <<kind>> : kind \in TaskKindsParse }
    \cup { <<kind, InheritedPriorityTask>> : kind \in TaskKindsParse }

InitParse ==
    /\ taskLines \in TaskListsParse
    /\ slotLines \in UNION { [1..n -> SlotLineKindsParse] :
                               n \in 0..MaxSlotsNarrow }
    /\ stressLevel \in StressLevels
    /\ selectedMood = "focused"
    /\ zone \in Zones
    /\ Constructed

NextParse ==
    \/ AnalyzeClick(1, Instants)
    \/ FetchRejected(Instants)
    \/ Phase1Visit
    \/ Phase2Visit
    \/ Phase3Visit
    \/ Return(Instants)
    \/ FetchResolved(AnyAnswer)
    \/ Tick(Instants)

SpecParse == InitParse /\ [][NextParse]_vars

\* The page in use: the user edits the form, moves the slider, picks a
\* mood, clears the form and asks for a schedule, up to MaxCalls times, while
\* earlier requests still wait for the server and time passes. The task is
\* due in 30 hours and takes 30 minutes; the time-slot text is empty or
\* "09:00-09:12", a window only the emergency phase uses. Other code may
\* call the agent itself: with no task or with a task of 60 minutes and of
\* high priority that is due in two hours, with no window or with the
\* window of the form, and with the stress level 0 or 5.
StressLevelsApp == {9}
Moods == {"tired"}
TaskListsApp ==
    { <<>>, <<TaskLine(Report, 30, High, DeadlineAt(30))>> }
SlotLineListsApp == { <<>>, <<SlotLine(540, 552)>> }
TaskListsAgent ==
    { <<>>,
      parseTasksInput(<<TaskLine(Report, 60, High, DeadlineAt(2))>>, <<0>>) }
SlotListsAgent ==
    { parseTimeSlots(lines, [i \in 1..Len(lines) |-> 0], NoChange) :
        lines \in SlotLineListsApp }
StressLevelsAgent == {0, 5}

InitApp ==
    /\ taskLines \in TaskListsApp
    /\ slotLines \in SlotLineListsApp
    /\ stressLevel = 5
    /\ selectedMood = "focused"
    /\ zone = NoChange
    /\ Constructed

NextApp ==
    \/ AnalyzeClick(MaxCalls, Instants)
    \/ FetchRejected(Instants)
    \/ Phase1Visit
    \/ Phase2Visit
    \/ Phase3Visit
    \/ Return(Instants)
    \/ FetchResolved(SomeAnswers)
    \/ AgentCall(MaxCalls, TaskListsAgent, SlotListsAgent, StressLevelsAgent,
                 Instants)
    \/ SliderInput(StressLevelsApp)
    \/ MoodClick(Moods)
    \/ EditTasks(TaskListsApp)
    \/ EditSlots(SlotLineListsApp)
    \/ ClearAll
    \/ Tick(Instants)

SpecApp == InitApp /\ [][NextApp]_vars

-----------------------------------------------------------------------------
(* Properties *)

\* The tasks and the windows of the running or last call of
\* processScheduleLocally, and the clock value at which it began.
callTasks == call.tasks
callTimeSlots == call.timeSlots
callNow == call.now

Returned == result # Null
\* What the results panel holds: "none", "local" or "server" when all its
\* elements hold that, "mixed" otherwise.
Shows ==
    IF \E source \in {"none", "local", "server"} : panel.holds = Holding(source)
    THEN panel.holds[1]
    ELSE "mixed"
Items == IF Returned THEN result.optimized_schedule ELSE <<>>
ItemSet == {Items[i] : i \in 1..Len(Items)}

\* Minutes the items of sched hold in the slot with index w.
AllocatedInto(sched, w) ==
    SumSeq([i \in 1..Len(sched) |->
              IF sched[i].time_block = w THEN sched[i].allocated_duration ELSE 0])

\* C1: for a non-empty task list and a non-empty window list the returned
\* schedule has exactly one item per input task (same id): none missing,
\* none twice, whichever phase handled it.
C1_Completeness ==
    (Returned /\ Len(callTasks) > 0 /\ Len(callTimeSlots) > 0) =>
        /\ Len(Items) = Len(callTasks)
        /\ \A i \in 1..Len(callTasks) :
              Cardinality({j \in 1..Len(Items) : Items[j].task.id = callTasks[i].id}) = 1

\* A returned schedule of three tasks: one placed by phase 1, one placed by
\* phase 2, one left unscheduled.
C1_Witness ==
    /\ Returned /\ Len(callTasks) = 3 /\ Len(callTimeSlots) > 0
    /\ \E a, b, c \in ItemSet :
          /\ a.scheduling_confidence = 90
          /\ b.scheduling_confidence \in {60, 80}
          /\ c.completion_status = "not_scheduled"

\* C2: in every state of a call, and in what it returns, the minutes
\* allocated into a window are at most the window's duration_minutes.
C2_Conservation ==
    /\ \A i \in 1..Len(schedule) : schedule[i].time_block \in 0..Len(availableSlots)
    /\ \A w \in 1..Len(availableSlots) :
          AllocatedInto(schedule, w) <= availableSlots[w].duration_minutes
    /\ Returned =>
          \A w \in 1..Len(result.slots) :
              AllocatedInto(Items, w) <= result.slots[w].duration_minutes

\* A returned schedule in which two items fill one window to the minute.
C2_Witness ==
    /\ Returned
    /\ \E w \in 1..Len(result.slots) :
          /\ AllocatedInto(Items, w) = result.slots[w].duration_minutes
          /\ Cardinality({j \in 1..Len(Items) : Items[j].time_block = w}) >= 2

\* C3: in every returned item, status not_scheduled, time_block null and
\* allocated_duration 0 hold together or not at all.
C3_StatusConsistency ==
    \A item \in ItemSet :
        /\ (item.completion_status = "not_scheduled") <=> (item.time_block = 0)
        /\ (item.time_block = 0) <=> (item.allocated_duration = 0)

\* A returned schedule with an item left unscheduled and an item placed by
\* the emergency phase.
C3_Witness ==
    \E a, b \in ItemSet :
        /\ a.completion_status = "not_scheduled"
        /\ b.scheduling_confidence = 50 /\ b.allocated_duration > 0

\* C4: a returned item with status complete holds its task's whole
\* estimated_duration, whether phase 1 or phase 2 placed it.
C4_CompleteIsFull ==
    \A item \in ItemSet :
        item.completion_status = "complete" =>
            item.allocated_duration = item.task.estimated_duration

\* A returned schedule with a complete item of phase 1 and one of phase 2.
C4_Witness ==
    \E a, b \in ItemSet :
        /\ a.completion_status = "complete" /\ a.scheduling_confidence = 90
        /\ b.completion_status = "complete" /\ b.scheduling_confidence = 80

\* C5: a returned item with status partial or scaled holds more than 0 and
\* less than its task's estimated_duration.
C5_PartialOrScaledIsShort ==
    \A item \in ItemSet :
        item.completion_status \in {"partial", "scaled"} =>
            /\ 0 < item.allocated_duration
            /\ item.allocated_duration < item.task.estimated_duration

\* C6: the returned items are in the order of the input task list: item i
\* belongs to input task i, whatever the priorities and whichever phase
\* placed it.
C6_InputOrder ==
    Returned => \A i \in 1..Len(Items) : Items[i].task.id = callTasks[i].id

\* C7: two calls of processScheduleLocally with the same tasks (ids
\* included), windows, stress level and mood return the same result in
\* every field, whenever they are made.
C7_SameResultWhenever ==
    (/\ Returned /\ prevResult # Null /\ pc = "idle"
     /\ prevCall.tasks = call.tasks
     /\ prevCall.timeSlots = call.timeSlots
     /\ prevCall.stressLevel = call.stressLevel
     /\ prevCall.mood = call.mood)
        => result = prevResult

NoSlotsLeftNote ==
    <<Note("No available time slots remaining - consider adding more time blocks",
           0, 0)>>

\* C8: no task or no window is a validation failure reported before
\* allocation begins: analyzeAndSchedule sends no such request on, and a
\* call of processScheduleLocally with no task or no window returns no
\* result, not even one with a list of not_scheduled items. While no call
\* runs, result is what the last call returned.
C8_NoScheduleForEmptyInput ==
    /\ \A r \in 1..Len(pending) :
          pending[r].tasks # <<>> /\ pending[r].timeSlots # <<>>
    /\ (pc = "idle" /\ call # NoCall
           /\ (call.tasks = <<>> \/ call.timeSlots = <<>>))
          => ~Returned

\* The end of the window is not after its start: the difference of the two
\* instants, of which calculateSlotDuration derives the duration, is not
\* positive.
Reversed(slot) ==
    /\ slot.start_time.minutes # NaN
    /\ slot.end_time.minutes # NaN
    /\ DateValue(slot.end_time, zone) <= DateValue(slot.start_time, zone)

\* C9: a window whose end is not after its start is rejected before
\* scheduling: a request with such a window fails validation and is not
\* sent on, no call reaches the allocator with it and no result is
\* produced.
C9_ReversedWindowRejected ==
    /\ \A r \in 1..Len(pending) :
          \A i \in 1..Len(pending[r].timeSlots) :
              ~Reversed(pending[r].timeSlots[i])
    /\ (\E i \in 1..Len(callTimeSlots) : Reversed(callTimeSlots[i])) =>
          (availableSlots = <<>> /\ ~Returned)

ItemOf(id) == CHOOSE item \in ItemSet : item.task.id = id
Priority(i) == calculateFinalPriority(callTasks[i], call.stressLevel, callNow)

\* The two tasks have the duration of the single window and different final
\* priorities.
ScenarioD ==
    /\ Len(callTasks) = 2 /\ Len(callTimeSlots) = 1
    /\ callTasks[1].estimated_duration = callTimeSlots[1].duration_minutes
    /\ callTasks[2].estimated_duration = callTimeSlots[1].duration_minutes
    /\ Priority(1) # Priority(2)

\* C10: of two tasks of duration d and one window of d minutes, in either
\* input order, the task of higher final priority ends complete with d
\* minutes and the other not_scheduled with 0 minutes and the note that
\* suggests more time blocks.
C10_ScenarioD ==
    (Returned /\ ScenarioD) =>
        LET hi == IF Less(Priority(2), Priority(1)) THEN 1 ELSE 2
            lo == 3 - hi
        IN /\ ItemOf(callTasks[hi].id).completion_status = "complete"
           /\ ItemOf(callTasks[hi].id).allocated_duration = callTasks[hi].estimated_duration
           /\ ItemOf(callTasks[lo].id).completion_status = "not_scheduled"
           /\ ItemOf(callTasks[lo].id).allocated_duration = 0
           /\ ItemOf(callTasks[lo].id).notes = NoSlotsLeftNote

\* The scenario with the task of higher priority second in the input and
\* the other task eligible for the emergency phase.
C10_Witness ==
    /\ Returned /\ ScenarioD
    /\ Less(Priority(1), Priority(2))
    /\ callTasks[1].priority = High

ScenarioE ==
    /\ Len(callTasks) = 3 /\ Len(callTimeSlots) = 2
    /\ SumSeq([i \in 1..3 |-> callTasks[i].estimated_duration]) = 200
    /\ SumSeq([i \in 1..2 |-> callTimeSlots[i].duration_minutes]) = 150

HighAndUrgent(task) ==
    task.priority = High /\ task.analysis.deadline_urgency > 80

\* The item of a high-priority urgent task that phases 1 and 2 left without
\* minutes: it went to the emergency phase.
Overflowed(item) ==
    HighAndUrgent(item.task) /\ item.scheduling_confidence \in {0, 50}

\* C11 as stated: in scenario E a high-priority urgent task that phases 1
\* and 2 could not place is placed by phase 3 and ends with status scaled and
\* confidence 0.5.
C11_RescuedIsScaled ==
    ScenarioE =>
        \A item \in ItemSet :
            Overflowed(item) =>
                /\ item.completion_status = "scaled"
                /\ item.scheduling_confidence = 50

\* C11 amended: in scenario E a high-priority urgent task that phases 1 and
\* 2 could not place is placed by phase 3 with confidence 0.5 when an unused
\* window still has 10 minutes or more; its status is partial when it gets
\* less than its duration and scaled only when it gets all of it; when no
\* such window is left it stays not_scheduled.
C11_RescueStatus ==
    ScenarioE =>
        \A item \in ItemSet :
            Overflowed(item) =>
                IF item.scheduling_confidence = 50
                THEN /\ item.allocated_duration > 0
                     /\ item.allocated_duration <= item.task.estimated_duration
                     /\ item.completion_status =
                           (IF item.allocated_duration < item.task.estimated_duration
                            THEN "partial" ELSE "scaled")
                ELSE /\ item.completion_status = "not_scheduled"
                     /\ \A w \in 1..Len(result.slots) :
                           \/ result.slots[w].used
                           \/ result.slots[w].remaining_time < 10

\* Scenario E has returned with a high-priority urgent task rescued by the
\* emergency phase with fewer minutes than it asked for.
C11_Witness ==
    /\ Returned /\ ScenarioE
    /\ \E item \in ItemSet :
          /\ Overflowed(item)
          /\ item.scheduling_confidence = 50
          /\ item.allocated_duration < item.task.estimated_duration

\* One task and one window of at least 15 minutes that is shorter than the
\* task.
ScenarioB ==
    /\ Len(callTasks) = 1 /\ Len(callTimeSlots) = 1
    /\ 15 <= callTimeSlots[1].duration_minutes
    /\ callTimeSlots[1].duration_minutes < callTasks[1].estimated_duration

\* C12: a single task of duration d and a single window of w minutes with
\* 15 <= w < d give one item with allocated_duration w and status partial
\* or scaled.
C12_ScenarioB ==
    (Returned /\ ScenarioB) =>
        /\ Len(Items) = 1
        /\ Items[1].allocated_duration = callTimeSlots[1].duration_minutes
        /\ Items[1].completion_status \in {"partial", "scaled"}

\* The scenario has returned for a window of exactly 15 minutes.
C12_Witness ==
    /\ Returned /\ ScenarioB
    /\ callTimeSlots[1].duration_minutes = 15
    /\ Items[1].time_block = 1

\* The items of a call during which the clock has not moved: those the
\* call is about to return and those it has returned.
ItemsOfStillCall ==
    IF pc = "ret" /\ now = callNow
    THEN {schedule[i] : i \in 1..Len(schedule)}
    ELSE IF pc = "idle" /\ Returned /\ result.ai_metadata.generated_at = callNow
    THEN ItemSet
    ELSE {}

\* C13: of two tasks that differ only in their deadline, analysed at the
\* same instant (the clock has not moved since the call began), the one
\* whose deadline is nearer (a past deadline being nearer than any future
\* one) has a deadline_urgency at least as high.
C13_MonotonicUrgency ==
    \A a, b \in ItemsOfStillCall :
        (/\ a.task.deadline.kind = "at"
         /\ b.task.deadline.kind = "at"
         /\ a.task.deadline.at - callNow <= b.task.deadline.at - callNow)
        => a.task.analysis.deadline_urgency >= b.task.analysis.deadline_urgency

\* A call has returned two tasks, the first of the input overdue when the
\* call began and the second due more than a week later, with different
\* urgencies.
C13_Witness ==
    /\ calls = 1 /\ Cardinality(ItemsOfStillCall) = 2 /\ Returned
    /\ callTasks[1].deadline.at < callNow
    /\ callTasks[2].deadline.at - callNow > 168
    /\ \E a, b \in ItemsOfStillCall :
          /\ a.task.id = callTasks[1].id /\ b.task.id = callTasks[2].id
          /\ a.task.analysis.deadline_urgency > b.task.analysis.deadline_urgency

\* C14: the reported average_scheduling_confidence is the arithmetic mean of
\* scheduling_confidence over the items of the returned schedule.
C14_AverageConfidence ==
    (Returned /\ Len(Items) > 0) =>
        result.insights.scheduling_summary.average_scheduling_confidence
            * Len(Items)
          = SumSeq([i \in 1..Len(Items) |-> Items[i].scheduling_confidence])

\* C15: task_analysis.scheduled_tasks is the number of items with
\* allocated_duration > 0, and scheduled_tasks plus the number of
\* not_scheduled items is total_tasks, the number of input tasks.
C15_ScheduledCount ==
    Returned =>
        LET placed == {i \in 1..Len(Items) : Items[i].allocated_duration > 0}
            unplaced == {i \in 1..Len(Items) :
                           Items[i].completion_status = "not_scheduled"}
        IN /\ result.task_analysis.scheduled_tasks = Cardinality(placed)
           /\ result.task_analysis.scheduled_tasks + Cardinality(unplaced)
                 = result.task_analysis.total_tasks
           /\ result.task_analysis.total_tasks = Len(callTasks)

Recommendations ==
    IF Returned THEN result.insights.recommendations ELSE <<>>
Recommends(note) == \E i \in 1..Len(Recommendations) : Recommendations[i] = note
PartialCount ==
    Cardinality({i \in 1..Len(Items) : Items[i].completion_status = "partial"})
FollowUpMessage ==
    Note("{a} tasks are partially scheduled - plan follow-up sessions",
         PartialCount, 0)
BreaksMessage == Note("High stress detected - take breaks between tasks", 0, 0)
AllScheduledMessage == Note("All tasks successfully scheduled!", 0, 0)

\* C16 as stated: whenever an item is partial the recommendations hold the
\* follow-up message with the count of partial items, and whenever the
\* stress level is 7 or more they hold the take-breaks message.
C16_PartialAlwaysReported ==
    Returned =>
        /\ PartialCount > 0 => Recommends(FollowUpMessage)
        /\ call.stressLevel >= 7 => Recommends(BreaksMessage)

\* C16 amended: the follow-up message with the count of partial items is
\* recommended when an item is partial and some item has no minutes; when
\* every item has minutes the list says "All tasks successfully scheduled!"
\* and holds no follow-up message, partial items or not; the take-breaks
\* message is recommended exactly when the stress level is 7 or more.
C16_Recommendations ==
    Returned =>
        LET allPlaced == \A i \in 1..Len(Items) : Items[i].allocated_duration > 0
        IN /\ (PartialCount > 0 /\ ~allPlaced) => Recommends(FollowUpMessage)
           /\ allPlaced =>
                 /\ Recommends(AllScheduledMessage)
                 /\ ~Recommends(FollowUpMessage)
           /\ (call.stressLevel >= 7) <=> Recommends(BreaksMessage)

\* A result at stress level 7 with a partial item and a not_scheduled item,
\* whose recommendations hold the follow-up and the take-breaks message.
C16_Witness ==
    /\ Returned /\ call.stressLevel >= 7
    /\ PartialCount > 0
    /\ \E item \in ItemSet : item.completion_status = "not_scheduled"
    /\ Recommends(FollowUpMessage)
    /\ Recommends(BreaksMessage)

\* C17: phase 1 visits every task in descending priority and places each
\* task that fits a non-exhausted window at its turn. Windows only lose
\* minutes during phase 1, so when phase 1 hands over to phase 2 no task
\* it left behind fits a non-exhausted window.
C17_NoFittingTaskPassedOver ==
    (pc = "phase2" /\ k = 1) =>
        \A i \in 1..Len(remainingTasks) :
            \A w \in 1..Len(availableSlots) :
                \/ availableSlots[w].used
                \/ availableSlots[w].remaining_time
                      < remainingTasks[i].estimated_duration

\* The item a callback has just pushed.
Pushed == schedule'[Len(schedule')]
Remaining(w) == availableSlots[w].remaining_time

\* C18: the window phase 1 picks for a task is a non-exhausted window that
\* holds the task and leaves the fewest minutes over, and the earliest of
\* the windows that leave as few.
C18_BestFit ==
    [][(pc = "phase1" /\ Len(schedule') = Len(schedule) + 1) =>
         LET d == Pushed.task.estimated_duration
             c == Pushed.time_block
             eligible == {w \in 1..Len(availableSlots) :
                            ~availableSlots[w].used /\ Remaining(w) >= d}
         IN /\ Pushed.task.id = remainingTasks[k].id
            /\ c \in eligible
            /\ \A w \in eligible :
                  /\ Remaining(c) - d <= Remaining(w) - d
                  /\ Remaining(c) - d = Remaining(w) - d => c <= w]_vars

\* Phase 1 has placed its first task in the second window: the first
\* window holds the task too, with more minutes left over.
C18_Witness ==
    /\ pc \in {"phase1", "phase2", "phase3", "ret"}
    /\ Len(schedule) = 1 /\ Len(availableSlots) = 2
    /\ schedule[1].scheduling_confidence = 90
    /\ schedule[1].time_block = 2
    /\ ~availableSlots[1].used
    /\ availableSlots[1].remaining_time > schedule[1].task.estimated_duration

C20_Phase2Status ==
    [][(pc = "phase2" /\ Len(schedule') = Len(schedule) + 1
          /\ Pushed.time_block # 0) =>
         IF Pushed.allocated_duration < remainingTasks[k].estimated_duration
         THEN /\ Pushed.completion_status = "partial"
              /\ Pushed.scheduling_confidence = 60
         ELSE /\ Pushed.scheduling_confidence = 80
              /\ Pushed.completion_status =
                    (IF TotalTaskTime(callTasks) > TotalAvailableTime(callTimeSlots)
                     THEN "scaled" ELSE "complete")]_vars

\* Phase 2 has placed one task whole in a call that asks for more minutes
\* than the windows have, and has found no window for the next.
C20_Witness ==
    /\ TotalTaskTime(callTasks) > TotalAvailableTime(callTimeSlots)
    /\ \E i, j \in 1..Len(schedule) :
          /\ schedule[i].completion_status = "scaled"
          /\ schedule[i].scheduling_confidence = 80
          /\ schedule[i].allocated_duration = schedule[i].task.estimated_duration
          /\ schedule[j].completion_status = "not_scheduled"

HighOrUrgent(item) ==
    item.task.priority = High \/ item.deadline_urgency > 80
Usable(slot) == ~slot.used /\ slot.remaining_time >= 10

\* No high-priority or urgent item of sched is not_scheduled while a slot
\* of slots is usable.
NoneLeftBehind(sched, slots) ==
    \A i \in 1..Len(sched) :
        (HighOrUrgent(sched[i]) /\ sched[i].completion_status = "not_scheduled")
            => \A w \in 1..Len(slots) : ~Usable(slots[w])

\* C21: when scheduling finishes no high-priority or urgent item is
\* not_scheduled while a non-exhausted window has 10 minutes or more; an
\* item phase 3 changes was not_scheduled, is of high priority or urgent,
\* and gets confidence 0.5 and min(duration, minutes left) of a window that
\* was non-exhausted with 10 minutes or more; phase 3 changes no other item.
C21_RescueGuarantee ==
    /\ [](/\ pc = "ret" => NoneLeftBehind(schedule, availableSlots)
          /\ Returned => NoneLeftBehind(Items, result.slots))
    /\ [][pc = "phase3" =>
            /\ Len(schedule') = Len(schedule)
            /\ \A i \in 1..Len(schedule) :
                  schedule'[i] # schedule[i] =>
                     LET c == schedule'[i].time_block IN
                     /\ i = queue[k]
                     /\ schedule[i].completion_status = "not_scheduled"
                     /\ HighOrUrgent(schedule[i])
                     /\ c \in 1..Len(availableSlots)
                     /\ Usable(availableSlots[c])
                     /\ schedule'[i].scheduling_confidence = 50
                     /\ schedule'[i].allocated_duration =
                           Min(schedule[i].task.estimated_duration, Remaining(c))
                     /\ schedule'[i].task = schedule[i].task]_vars

\* A result in which phase 3 has rescued an urgent task of low priority and
\* has left alone a not_scheduled task that is neither urgent nor of high
\* priority.
C21_Witness ==
    /\ Returned
    /\ \E a, b \in ItemSet :
          /\ a.scheduling_confidence = 50 /\ a.task.priority = Low
          /\ a.deadline_urgency > 80
          /\ b.completion_status = "not_scheduled" /\ ~HighOrUrgent(b)

\* The step function of the hours until the deadline.
UrgencySteps(h) ==
    IF h <= 6 THEN 100
    ELSE IF h <= 24 THEN 90
    ELSE IF h <= 48 THEN 70
    ELSE IF h <= 168 THEN 50
    ELSE 30

\* C22: deadline_urgency is the step function of the hours until the
\* deadline at the instant of the analysis, and 0.2 for a task without a
\* deadline or with a deadline that is not a date; the analysis does not
\* fail: the call returns an item for every task.
C22_UrgencyValues ==
    /\ ItemsOfStillCall # {} => Cardinality(ItemsOfStillCall) = Len(callTasks)
    /\ \A item \in ItemsOfStillCall :
          item.task.analysis.deadline_urgency =
             (IF item.task.deadline.kind = "at"
              THEN UrgencySteps(item.task.deadline.at - callNow)
              ELSE 20)

\* Task a is processed before task b: higher final priority, or the same
\* and earlier in the input.
TaskBefore(a, b) ==
    \/ Less(b.analysis.final_priority, a.analysis.final_priority)
    \/ /\ a.analysis.final_priority = b.analysis.final_priority
       /\ a.id.index < b.id.index

\* urgency*0.5 + importance*0.3 + stress_compatibility*0.2 in units of
\* 1/100000.
Weighted(analysis) ==
    analysis.deadline_urgency * 500 + analysis.importance_score * 300
    + analysis.stress_compatibility.x * 2

\* C23: final_priority is urgency*0.5 + importance*0.3 +
\* stress_compatibility*0.2, as exactly as doubles add, and the list each
\* phase walks through from its first to its last element is in descending
\* final_priority, tasks of equal final_priority in input order.
C23_PriorityOrder ==
    /\ \A i \in 1..Len(remainingTasks) :
          /\ remainingTasks[i].analysis.final_priority.x
                = Weighted(remainingTasks[i].analysis)
          /\ remainingTasks[i].analysis.final_priority.ulps \in {0 - 1, 0, 1}
    /\ pc \in {"phase1", "phase2"} =>
          \A i, j \in 1..Len(remainingTasks) :
              i < j => TaskBefore(remainingTasks[i], remainingTasks[j])
    /\ pc = "phase3" =>
          \A i, j \in 1..Len(queue) :
              i < j => TaskBefore(schedule[queue[i]].task, schedule[queue[j]].task)

\* C24: during a call the schedule only grows; an item that has a window
\* is never changed by a later step; the only change an existing item
\* undergoes is from not_scheduled to partial or scaled in phase 3; and the
\* result holds the items as phase 3 left them.
C24_NoBacktracking ==
    [][(pc \in {"phase1", "phase2", "phase3"} =>
          /\ Len(schedule') >= Len(schedule)
          /\ \A i \in 1..Len(schedule) :
                /\ schedule[i].completion_status # "not_scheduled"
                      => schedule'[i] = schedule[i]
                /\ schedule'[i] # schedule[i] =>
                      /\ pc = "phase3"
                      /\ schedule'[i].completion_status \in {"partial", "scaled"})
       /\ (pc = "ret" => result'.optimized_schedule = schedule)]_vars

\* A call is about to return a schedule with an item phase 1 placed and an
\* item phase 3 rescued.
C24_Witness ==
    /\ pc = "ret"
    /\ \E i, j \in 1..Len(schedule) :
          /\ schedule[i].scheduling_confidence = 90
          /\ schedule[j].scheduling_confidence = 50
          /\ schedule[j].completion_status \in {"partial", "scaled"}

\* The minutes of window w no item holds.
Left(w) == availableSlots[w].duration_minutes - AllocatedInto(schedule, w)

\* C25 as stated: at every point of a call each window's remaining_time is
\* its duration_minutes minus the minutes allocated into it so far, and is
\* never negative.
C25_RemainingIsWhatIsLeft ==
    \A w \in 1..Len(availableSlots) :
        /\ availableSlots[w].remaining_time = Left(w)
        /\ availableSlots[w].remaining_time >= 0

\* The window the step has allocated into is flagged exactly when flagIf
\* holds; no other window changes.
FlagRule(c, flagIf) ==
    /\ availableSlots'[c].used = flagIf
    /\ \A w \in 1..Len(availableSlots) :
          w # c => availableSlots'[w] = availableSlots[w]

\* C25 amended: at every point of a call the minutes left in a window
\* (duration_minutes minus the minutes allocated into it) are never
\* negative; remaining_time equals them for every non-exhausted window; an
\* exhausted window has fewer than 15 minutes left and its remaining_time
\* equals them too, unless phase 1 filled the window exactly: then nothing
\* is left and remaining_time still holds the minutes of the task that
\* filled it. Phase 1 flags a window exactly when the task takes all its
\* remaining minutes, phase 2 exactly when fewer than 15 remain after the
\* allocation, phase 3 exactly when fewer than 10 remain.
C25_CapacityAccounting ==
    /\ [](\A w \in 1..Len(availableSlots) :
             /\ Left(w) >= 0
             /\ availableSlots[w].remaining_time >= 0
             /\ ~availableSlots[w].used => availableSlots[w].remaining_time = Left(w)
             /\ availableSlots[w].used =>
                   \/ availableSlots[w].remaining_time = Left(w) /\ Left(w) < 15
                   \/ /\ Left(w) = 0
                      /\ \E i \in 1..Len(schedule) :
                            /\ schedule[i].time_block = w
                            /\ schedule[i].scheduling_confidence = 90
                            /\ schedule[i].allocated_duration
                                  = availableSlots[w].remaining_time)
    /\ [][/\ (pc = "phase1" /\ Len(schedule') = Len(schedule) + 1) =>
               FlagRule(Pushed.time_block,
                        Remaining(Pushed.time_block) = Pushed.allocated_duration)
          /\ (pc = "phase2" /\ Len(schedule') = Len(schedule) + 1
                 /\ Pushed.time_block # 0) =>
               FlagRule(Pushed.time_block,
                        Remaining(Pushed.time_block) - Pushed.allocated_duration < 15)
          /\ (pc = "phase3" /\ schedule' # schedule) =>
               LET c == schedule'[queue[k]].time_block IN
               FlagRule(c, Remaining(c) - schedule'[queue[k]].allocated_duration < 10)
         ]_vars

\* Phase 1 has filled the first window exactly and phase 2 has taken 10
\* minutes of the second, which keeps 20 and is not exhausted.
C25_Witness ==
    /\ pc = "ret" /\ Len(availableSlots) = 2
    /\ availableSlots[1].used /\ Left(1) = 0
    /\ availableSlots[1].remaining_time > 0
    /\ ~availableSlots[2].used
    /\ availableSlots[2].remaining_time >= 15
    /\ availableSlots[2].remaining_time < availableSlots[2].duration_minutes
    /\ \E i \in 1..Len(schedule) :
          schedule[i].time_block = 2 /\ schedule[i].scheduling_confidence = 80

\* The items of the running call and of the last result.
AllItems == {schedule[i] : i \in 1..Len(schedule)} \cup ItemSet

\* The input task of an item, found by its id.
InputOf(item) == CHOOSE t \in {callTasks[i] : i \in 1..Len(callTasks)} : t.id = item.task.id

\* C26 as stated: the task of every item, in every phase, has the id,
\* title, estimated_duration, priority and deadline of an input task.
C26_TaskUnchanged ==
    \A item \in AllItems :
        /\ \E i \in 1..Len(callTasks) : callTasks[i].id = item.task.id
        /\ item.task.title = InputOf(item).title
        /\ item.task.estimated_duration = InputOf(item).estimated_duration
        /\ item.task.priority = InputOf(item).priority
        /\ item.task.deadline = InputOf(item).deadline

\* C26 amended: the task of every item has the id, estimated_duration,
\* priority and deadline of an input task, and its title too, except that
\* an item phase 2 places in part (partial, confidence 0.6) carries the
\* title with " (Partial)" appended.
C26_TaskUnchangedButTitle ==
    \A item \in AllItems :
        /\ \E i \in 1..Len(callTasks) : callTasks[i].id = item.task.id
        /\ item.task.title =
              (IF item.completion_status = "partial"
                  /\ item.scheduling_confidence = 60
               THEN InputOf(item).title \o PartialMark
               ELSE InputOf(item).title)
        /\ item.task.estimated_duration = InputOf(item).estimated_duration
        /\ item.task.priority = InputOf(item).priority
        /\ item.task.deadline = InputOf(item).deadline

\* A result with an item phase 1 placed and an item phase 2 placed in part.
C26_Witness ==
    /\ Returned
    /\ \E a, b \in ItemSet :
          /\ a.scheduling_confidence = 90
          /\ b.scheduling_confidence = 60
          /\ b.task.title # InputOf(b).title

\* The engine is at the first callback of phase 1.
CallStarts == pc = "phase1" /\ k = 1 /\ schedule = <<>>

\* C27: no step of a call changes the caller's tasks or windows, a window
\* never gets a remaining_time or used field and a task never an analysis
\* field, and every call, the second included, starts with each window at
\* its full duration and not exhausted.
C27_InputsUnchanged ==
    /\ [][/\ taskLines' = taskLines
          /\ slotLines' = slotLines
          /\ pc # "idle" => (call' = call /\ pending' = pending)]_vars
    /\ [](/\ \A i \in 1..Len(callTasks) : "analysis" \notin DOMAIN callTasks[i]
          /\ \A i \in 1..Len(callTimeSlots) :
                DOMAIN callTimeSlots[i] \cap {"remaining_time", "used"} = {}
          /\ CallStarts =>
                /\ Len(availableSlots) = Len(callTimeSlots)
                /\ \A w \in 1..Len(availableSlots) :
                      /\ availableSlots[w].remaining_time
                            = callTimeSlots[w].duration_minutes
                      /\ ~availableSlots[w].used)

\* The second call starts, after a first call that exhausted a window.
C27_Witness ==
    /\ CallStarts /\ calls = 2 /\ Returned
    /\ Len(result.slots) = Len(availableSlots)
    /\ \E w \in 1..Len(result.slots) : result.slots[w].used

\* C28: when phase 1 has placed a task (complete, confidence 0.9), every
\* task before it in priority order that is no longer than it has its full
\* duration too.
C28_NoPriorityInversion ==
    \A placed, earlier \in ItemSet :
        (/\ placed.completion_status = "complete"
         /\ placed.scheduling_confidence = 90
         /\ TaskBefore(earlier.task, placed.task)
         /\ earlier.task.estimated_duration <= placed.task.estimated_duration)
        => earlier.allocated_duration = earlier.task.estimated_duration

\* C29: while phase 3 runs every non-exhausted window has fewer than 15
\* minutes left, so an item phase 3 places (confidence 0.5) holds at most
\* 14 minutes, and at least 10 when its task is of 10 minutes or more.
C29_RescueSize ==
    /\ pc = "phase3" =>
          \A w \in 1..Len(availableSlots) :
              ~availableSlots[w].used => availableSlots[w].remaining_time < 15
    /\ \A item \in AllItems :
          item.scheduling_confidence = 50 =>
              /\ item.allocated_duration <= 14
              /\ item.task.estimated_duration >= 10 => item.allocated_duration >= 10

\* C30: the scheduling_confidence of every returned item is 0.0, 0.5, 0.6,
\* 0.8 or 0.9; it is 0.0 exactly for not_scheduled items, 0.6 or 0.5 for
\* every partial item, and 0.9 only for complete items.
C30_ConfidenceValues ==
    \A item \in ItemSet :
        /\ item.scheduling_confidence \in {0, 50, 60, 80, 90}
        /\ (item.scheduling_confidence = 0)
              <=> (item.completion_status = "not_scheduled")
        /\ item.completion_status = "partial"
              => item.scheduling_confidence \in {50, 60}
        /\ item.scheduling_confidence = 90
              => item.completion_status = "complete"

\* A result with a complete item of phase 1, a partial item of phase 3 and
\* a not_scheduled item.
C30_Witness ==
    /\ Returned
    /\ \E a, b, c \in ItemSet :
          /\ a.scheduling_confidence = 90
          /\ b.scheduling_confidence = 50 /\ b.completion_status = "partial"
          /\ c.scheduling_confidence = 0

=============================================================================
